---- MODULE Spec2Model ----
(***************************************************************************)
(* Model of the persistence layer of ProyectoV3.py (gestor de clientes):   *)
(* the SQLite tables clientes, notas and turnos and the repo_* functions   *)
(* that read and write them.  Every repo_* function opens its own          *)
(* connection with get_conn() and runs one SQL statement; a function is    *)
(* modelled by a pure operator that maps the tables and the arguments to   *)
(* the tables after the call, the value returned and the exception raised, *)
(* and by one action that applies the operator to the state.               *)
(***************************************************************************)
EXTENDS Integers, Sequences, FiniteSets, TLC

VARIABLES
    clientes,       \* table clientes: a set of rows
    seq_clientes,   \* AUTOINCREMENT counter of clientes (sqlite_sequence)
    notas,          \* table notas
    seq_notas,      \* AUTOINCREMENT counter of notas
    turnos,         \* table turnos
    seq_turnos,     \* AUTOINCREMENT counter of turnos
    settings,       \* table settings: a set of rows [key, value]
    environ,        \* os.environ: the variables that are set, with their values
    smtp,           \* the mail servers a connection was opened to: <<host, port>>
    now,            \* the wall clock, in seconds (datetime.now())
    peticiones,     \* the requests the web server is handling: each one's position
    last            \* the last call: its name, arguments, exception and return value

vars == <<clientes, seq_clientes, notas, seq_notas, turnos, seq_turnos, settings,
          environ, smtp, now, peticiones, last>>

----------------------------------------------------------------------------
(* Bounds of the model. *)

MaxClientes == 2    \* customers ever created
MaxNotas == 2       \* notes ever created
MaxTurnos == 2      \* appointments ever created
MaxClock == 1       \* seconds the clock advances
MaxEnvios == 1      \* connections to the mail server; sends under way at a time
MaxPeticiones == 2  \* threads of the web server; toggle requests it receives
MaxEdiciones == 1   \* edit requests the web server handles at a time

----------------------------------------------------------------------------
(* Values. *)

\* SQL NULL / Python None in an integer column or argument.
NULL == -1

\* The requests of the web server that read and then act on what they read, none
\* of which has arrived.  op is the handler.  A request is "nueva" until it arrives
\* and "leida" between its read and its second call, when it holds what it read:
\* a toggle the row of the customer, an edit the row and the form that was sent, a
\* send of mail the configuration get_smtp_config returned.  A toggle request that
\* has answered is "no_encontrado" when it found no customer, else "hecha"; the
\* thread of another request that has answered takes the next request.
SinPeticiones ==
    [k \in 1..MaxPeticiones |->
        [pc |-> "nueva", op |-> "", cliente_id |-> NULL, row |-> {}, f |-> {},
         cfg |-> {}]]

Emails == {"a@example.com", "b@example.com"}

\* The names of the optional keyword arguments of repo_update / repo_update_by_id.
CamposPatch == {"nombre", "apellido", "telefono_e164", "email_nuevo", "activo", "notas"}

\* Cliente dataclass instances handed to repo_add.
ClientesNuevos ==
    { [nombre |-> "ana", apellido |-> "Baez", telefono_e164 |-> "+14155552671",
       email |-> "a@example.com", activo |-> 1, notas |-> ""],
      [nombre |-> "Bea", apellido |-> "abad", telefono_e164 |-> "+14155552672",
       email |-> "b@example.com", activo |-> 0, notas |-> "VIP"],
      [nombre |-> "Bea", apellido |-> "abad", telefono_e164 |-> "+14155552672",
       email |-> "a@example.com", activo |-> 0, notas |-> "VIP"] }

\* Sparse keyword arguments of an update call: a record holding exactly the
\* arguments that are not None.
Patches ==
    { << >>,
      [notas |-> "VIP"],
      [activo |-> FALSE],
      [email_nuevo |-> "b@example.com"],
      [nombre |-> "ana", apellido |-> "Baez", telefono_e164 |-> "+14155552671",
       email_nuevo |-> "a@example.com", activo |-> TRUE, notas |-> ""] }

\* Identifiers a caller may pass: every identifier ever assigned and one never assigned.
ClienteIds == 1..(MaxClientes + 1)

Supplied(p, f) == f \in DOMAIN p

----------------------------------------------------------------------------
(* The connection. *)

\* SQLite enforces foreign keys on a connection only after PRAGMA foreign_keys = ON
\* ran on that connection; a new connection starts with enforcement off.
SQLITE_FOREIGN_KEYS_DEFAULT == FALSE

\* get_conn(): sqlite3.connect(DB_PATH) and a row factory; no PRAGMA is run, so the
\* connection of every repo_* function enforces foreign keys as SQLite's default says.
get_conn == [foreign_keys |-> SQLITE_FOREIGN_KEYS_DEFAULT]

\* with get_conn() as con: the context manager of sqlite3.Connection commits or rolls
\* back on exit and does not close the connection, and no function calls
\* con.close().  CPython closes the connection when it frees the object: after the
\* call returned the object is garbage in a reference cycle, freed when the cycle
\* collector next runs; after the call raised, the traceback holds it.
WITH_CLOSES_CONNECTION == FALSE
with_get_conn == IF WITH_CLOSES_CONNECTION THEN "closed" ELSE "open"

\* The connection of a call that opened one (opened) or returned before get_conn().
Conexion(opened) == IF opened THEN with_get_conn ELSE "none"

\* CREATE UNIQUE INDEX ux_clientes_email ON clientes(email)
ux_clientes_email(tbl) ==
    \A r1 \in tbl : \A r2 \in tbl : r1.id # r2.id => r1.email # r2.email

----------------------------------------------------------------------------
(* Call results. *)

\* The database as the operators below see it.
DB == [clientes |-> clientes, seq_clientes |-> seq_clientes,
       notas |-> notas, seq_notas |-> seq_notas,
       turnos |-> turnos, seq_turnos |-> seq_turnos, settings |-> settings]

\* A call that returned ret and left the database as db; a call that raised e: the
\* statement is rolled back, the database is as before the call.
Returned(db, ret) == [db |-> db, exc |-> "none", ret |-> ret]
Raised(db, e, ret) == [db |-> db, exc |-> e, ret |-> ret]

----------------------------------------------------------------------------
(* Clientes: create. *)

\* The row INSERT INTO clientes builds from a Cliente: created_at = updated_at = now.
ClienteRow(id, c, ts) ==
    [id |-> id, nombre |-> c.nombre, apellido |-> c.apellido,
     telefono_e164 |-> c.telefono_e164, email |-> c.email, activo |-> c.activo,
     notas |-> c.notas, created_at |-> ts, updated_at |-> ts]

\* repo_add on a table without the unique index: the duplicate row is stored.
repo_add_sin_indice(db, c, ts) ==
    LET id == db.seq_clientes + 1
    IN  Returned([db EXCEPT !.clientes = db.clientes \cup {ClienteRow(id, c, ts)},
                            !.seq_clientes = id], id)

\* repo_add as INSERT OR REPLACE: the row that holds the email is overwritten.
repo_add_or_replace(db, c, ts) ==
    LET id == db.seq_clientes + 1
        kept == {r \in db.clientes : r.email # c.email}
    IN  Returned([db EXCEPT !.clientes = kept \cup {ClienteRow(id, c, ts)},
                            !.seq_clientes = id], id)

\* repo_add on a table whose id is INTEGER PRIMARY KEY without AUTOINCREMENT: the
\* new id is one more than the largest id in the table, 1 in an empty table.
repo_add_sin_autoincrement(db, c, ts) ==
    LET ids == {r.id : r \in db.clientes}
        id == IF ids = {} THEN 1 ELSE (CHOOSE x \in ids : \A y \in ids : y <= x) + 1
        tbl == db.clientes \cup {ClienteRow(id, c, ts)}
    IN  IF ~ux_clientes_email(tbl)
        THEN Raised(db, "IntegrityError", NULL)
        ELSE Returned([db EXCEPT !.clientes = tbl], id)

\* repo_add(c): INSERT INTO clientes (...) VALUES (...); returns cur.lastrowid.
\* id INTEGER PRIMARY KEY AUTOINCREMENT: the new id is one more than the largest id
\* ever assigned.  A duplicate email violates ux_clientes_email: IntegrityError.
repo_add(db, c, ts) ==
    LET id == db.seq_clientes + 1
        tbl == db.clientes \cup {ClienteRow(id, c, ts)}
    IN  IF ~ux_clientes_email(tbl)
        THEN Raised(db, "IntegrityError", NULL)
        ELSE Returned([db EXCEPT !.clientes = tbl, !.seq_clientes = id], id)

----------------------------------------------------------------------------
(* Clientes: update. *)

\* UpdatedRow with a full SET clause: a field that is not supplied is written as its
\* column default instead of being left out.
UpdatedRow_set_completo(r, p, ts) ==
    [id |-> r.id,
     nombre |-> IF Supplied(p, "nombre") THEN p.nombre ELSE r.nombre,
     apellido |-> IF Supplied(p, "apellido") THEN p.apellido ELSE r.apellido,
     telefono_e164 |-> IF Supplied(p, "telefono_e164") THEN p.telefono_e164
                       ELSE r.telefono_e164,
     email |-> IF Supplied(p, "email_nuevo") THEN p.email_nuevo ELSE r.email,
     activo |-> IF Supplied(p, "activo") THEN (IF p.activo THEN 1 ELSE 0) ELSE 1,
     notas |-> IF Supplied(p, "notas") THEN p.notas ELSE "",
     created_at |-> r.created_at,
     updated_at |-> ts]

\* UpdatedRow without fields.append("updated_at = ?"): the timestamp is kept.
UpdatedRow_sin_updated_at(r, p, ts) ==
    [id |-> r.id,
     nombre |-> IF Supplied(p, "nombre") THEN p.nombre ELSE r.nombre,
     apellido |-> IF Supplied(p, "apellido") THEN p.apellido ELSE r.apellido,
     telefono_e164 |-> IF Supplied(p, "telefono_e164") THEN p.telefono_e164
                       ELSE r.telefono_e164,
     email |-> IF Supplied(p, "email_nuevo") THEN p.email_nuevo ELSE r.email,
     activo |-> IF Supplied(p, "activo") THEN (IF p.activo THEN 1 ELSE 0) ELSE r.activo,
     notas |-> IF Supplied(p, "notas") THEN p.notas ELSE r.notas,
     created_at |-> r.created_at,
     updated_at |-> r.updated_at]

\* The row after UPDATE clientes SET <supplied fields>, updated_at = ts.
\* activo is stored as 1 if activo else 0.
UpdatedRow(r, p, ts) ==
    [id |-> r.id,
     nombre |-> IF Supplied(p, "nombre") THEN p.nombre ELSE r.nombre,
     apellido |-> IF Supplied(p, "apellido") THEN p.apellido ELSE r.apellido,
     telefono_e164 |-> IF Supplied(p, "telefono_e164") THEN p.telefono_e164
                       ELSE r.telefono_e164,
     email |-> IF Supplied(p, "email_nuevo") THEN p.email_nuevo ELSE r.email,
     activo |-> IF Supplied(p, "activo") THEN (IF p.activo THEN 1 ELSE 0) ELSE r.activo,
     notas |-> IF Supplied(p, "notas") THEN p.notas ELSE r.notas,
     created_at |-> r.created_at,
     updated_at |-> ts]

\* SqlUpdateClientes that checks the new email against every row, the updated row
\* included: supplying the customer's own email counts as a collision.
SqlUpdateClientes_email_propio(db, matched, p, ts) ==
    LET tbl == (db.clientes \ matched) \cup {UpdatedRow(r, p, ts) : r \in matched}
    IN  IF \/ ~ux_clientes_email(tbl)
           \/ /\ matched # {}
              /\ Supplied(p, "email_nuevo")
              /\ \E r \in db.clientes : r.email = p.email_nuevo
        THEN Raised(db, "IntegrityError", FALSE)
        ELSE Returned([db EXCEPT !.clientes = tbl], matched # {})

\* UPDATE clientes SET ... WHERE <matched>: the statement as a whole; a violation of
\* the unique index aborts it.
SqlUpdateClientes(db, matched, p, ts) ==
    LET tbl == (db.clientes \ matched) \cup {UpdatedRow(r, p, ts) : r \in matched}
    IN  IF ~ux_clientes_email(tbl)
        THEN Raised(db, "IntegrityError", FALSE)
        ELSE Returned([db EXCEPT !.clientes = tbl], matched # {})

\* repo_update_by_id(cliente_id, **p): no field supplied: return False before any
\* statement; else UPDATE ... WHERE id = ?; returns cur.rowcount > 0.
repo_update_by_id(db, cliente_id, p, ts) ==
    IF DOMAIN p = {}
    THEN Returned(db, FALSE)
    ELSE SqlUpdateClientes(db, {r \in db.clientes : r.id = cliente_id}, p, ts)

\* repo_update(email_original, **p): the same, WHERE email = ?.
repo_update(db, email_original, p, ts) ==
    IF DOMAIN p = {}
    THEN Returned(db, FALSE)
    ELSE SqlUpdateClientes(db, {r \in db.clientes : r.email = email_original}, p, ts)

----------------------------------------------------------------------------
(* Clientes: delete. *)

\* DELETE FROM clientes WHERE <matched>, on connection con.  The foreign keys of
\* notas (ON DELETE CASCADE) and turnos (ON DELETE SET NULL) act only on a
\* connection that enforces foreign keys.
SqlDeleteClientes(db, matched, con) ==
    LET ids == {r.id : r \in matched}
    IN  [db EXCEPT
            !.clientes = db.clientes \ matched,
            !.notas = IF con.foreign_keys
                      THEN {n \in db.notas : n.cliente_id \notin ids}
                      ELSE db.notas,
            !.turnos = IF con.foreign_keys
                       THEN {IF t.cliente_id \in ids THEN [t EXCEPT !.cliente_id = NULL]
                             ELSE t : t \in db.turnos}
                       ELSE db.turnos]

\* repo_delete_by_id(cliente_id): DELETE FROM clientes WHERE id = ?; rowcount > 0.
repo_delete_by_id(db, cliente_id) ==
    LET matched == {r \in db.clientes : r.id = cliente_id}
    IN  Returned(SqlDeleteClientes(db, matched, get_conn), matched # {})

\* repo_delete(email): DELETE FROM clientes WHERE email = ?; rowcount > 0.
repo_delete(db, email) ==
    LET matched == {r \in db.clientes : r.email = email}
    IN  Returned(SqlDeleteClientes(db, matched, get_conn), matched # {})

----------------------------------------------------------------------------
(* Clientes: read. *)

\* The columns of SELECT ..., telefono_e164 AS telefono, ...
RowTelefono(r) ==
    [id |-> r.id, nombre |-> r.nombre, apellido |-> r.apellido,
     telefono |-> r.telefono_e164, email |-> r.email, activo |-> r.activo,
     notas |-> r.notas, created_at |-> r.created_at, updated_at |-> r.updated_at]

\* cur.fetchone() of a query that matches at most one row: the row, or None.  An
\* Optional row is the set of the rows fetched: {} is None.
repo_get_by_id(db, cliente_id) ==
    Returned(db, {RowTelefono(r) : r \in {x \in db.clientes : x.id = cliente_id}})

repo_get_by_email(db, email) ==
    Returned(db, {r \in db.clientes : r.email = email})

----------------------------------------------------------------------------
(* Clientes: list. *)

\* The names of the model as SQLite holds them, in bytes of UTF-8.  In a name
\* "U+00C1" is the one character A WITH ACUTE in upper case (bytes 195, 129) and
\* "U+00E1" the same letter in lower case (bytes 195, 161).
Codes(s) ==
    CASE s = "ana"  -> <<97, 110, 97>>
      [] s = "Bea"  -> <<66, 101, 97>>
      [] s = "abad" -> <<97, 98, 97, 100>>
      [] s = "Baez" -> <<66, 97, 101, 122>>
      [] s = "U+00C1vila"  -> <<195, 129, 118, 105, 108, 97>>
      [] s = "U+00E1valos" -> <<195, 161, 118, 97, 108, 111, 115>>

\* COLLATE NOCASE folds the 26 upper-case ASCII letters to lower case.
NocaseFold(ch) == IF ch >= 65 /\ ch <= 90 THEN ch + 32 ELSE ch

RECURSIVE SeqCmp(_, _)
\* Lexicographic comparison of two code sequences: -1, 0 or 1.
SeqCmp(a, b) ==
    IF a = << >> /\ b = << >> THEN 0
    ELSE IF a = << >> THEN -1
    ELSE IF b = << >> THEN 1
    ELSE IF Head(a) < Head(b) THEN -1
    ELSE IF Head(a) > Head(b) THEN 1
    ELSE SeqCmp(Tail(a), Tail(b))

NocaseKey(s) == [i \in 1..Len(Codes(s)) |-> NocaseFold(Codes(s)[i])]

\* The comparison of x COLLATE NOCASE with y COLLATE NOCASE.
NocaseCmp(x, y) == SeqCmp(NocaseKey(x), NocaseKey(y))

\* ORDER BY apellido COLLATE NOCASE, nombre COLLATE NOCASE: r1 sorts before r2.
\* Rows equal under both keys come out in table (rowid) order.
OrderClientes(r1, r2) ==
    LET ca == NocaseCmp(r1.apellido, r2.apellido)
        cn == NocaseCmp(r1.nombre, r2.nombre)
    IN  \/ ca < 0
        \/ ca = 0 /\ cn < 0
        \/ ca = 0 /\ cn = 0 /\ r1.id < r2.id

RECURSIVE SortClientes(_)
SortClientes(rows) ==
    IF rows = {} THEN << >>
    ELSE LET first == CHOOSE r \in rows :
                        \A o \in rows : o = r \/ OrderClientes(r, o)
         IN  <<first>> \o SortClientes(rows \ {first})

\* WhereActivo without the elif branch: activo is False lists every row.
WhereActivo_sin_elif(activo, r) ==
    CASE activo = "True"  -> r.activo = 1
      [] OTHER            -> TRUE

\* The WHERE clause of repo_list: activo is True, activo is False, or neither.
WhereActivo(activo, r) ==
    CASE activo = "True"  -> r.activo = 1
      [] activo = "False" -> r.activo = 0
      [] OTHER            -> TRUE

\* repo_list(activo): SELECT ... FROM clientes {where} ORDER BY ...; all rows fetched.
\* The Optional[bool] argument is "None", "True" or "False".
repo_list(db, activo) ==
    Returned(db, SortClientes({RowTelefono(r) :
                                 r \in {x \in db.clientes : WhereActivo(activo, x)}}))

Filtros == {"None", "True", "False"}

----------------------------------------------------------------------------
(* Text arguments. *)

\* A text is a sequence of characters; str.strip() drops leading and trailing blanks.
RECURSIVE LStrip(_)
LStrip(s) == IF s # << >> /\ Head(s) = " " THEN LStrip(Tail(s)) ELSE s

RECURSIVE RStrip(_)
RStrip(s) ==
    IF s # << >> /\ s[Len(s)] = " " THEN RStrip(SubSeq(s, 1, Len(s) - 1)) ELSE s

Strip(s) == RStrip(LStrip(s))

Contenidos == {<<"o", "k">>, <<" ", "o", "k", " ">>}
Motivos == {<<"c", "x">>, <<" ", "c", "x">>}

----------------------------------------------------------------------------
(* Notas. *)

\* FOREIGN KEY (cliente_id) REFERENCES clientes(id), checked on a connection that
\* enforces foreign keys: a non-NULL reference must name a row of clientes.
FkClienteOk(db, cliente_id, con) ==
    \/ ~con.foreign_keys
    \/ cliente_id = NULL
    \/ \E r \in db.clientes : r.id = cliente_id

\* repo_notas_add(cliente_id, contenido): INSERT INTO notas (cliente_id, contenido,
\* created_at) VALUES (?, contenido.strip(), now); returns cur.lastrowid.
repo_notas_add(db, cliente_id, contenido, ts) ==
    LET id == db.seq_notas + 1
        row == [id |-> id, cliente_id |-> cliente_id,
                contenido |-> Strip(contenido), created_at |-> ts]
    IN  IF ~FkClienteOk(db, cliente_id, get_conn)
        THEN Raised(db, "IntegrityError", NULL)
        ELSE Returned([db EXCEPT !.notas = db.notas \cup {row}, !.seq_notas = id], id)

\* repo_notas_delete(nota_id): DELETE FROM notas WHERE id = ?; rowcount > 0.
repo_notas_delete(db, nota_id) ==
    LET matched == {n \in db.notas : n.id = nota_id}
    IN  Returned([db EXCEPT !.notas = db.notas \ matched], matched # {})

\* ORDER BY n.created_at DESC.  Rows with the same created_at come in the order of
\* the scan, which reads notas through ix_notas_cliente: by cliente_id, then by id.
OrderNotas(r1, r2) ==
    \/ r1.created_at > r2.created_at
    \/ /\ r1.created_at = r2.created_at
       /\ \/ r1.cliente_id < r2.cliente_id
          \/ (r1.cliente_id = r2.cliente_id /\ r1.id < r2.id)

RECURSIVE SortNotas(_)
SortNotas(rows) ==
    IF rows = {} THEN << >>
    ELSE LET first == CHOOSE r \in rows : \A o \in rows : o = r \/ OrderNotas(r, o)
         IN  <<first>> \o SortNotas(rows \ {first})

\* repo_notas_list(cliente_id): SELECT n.id, n.cliente_id, n.contenido, n.created_at,
\* c.nombre, c.apellido, c.email FROM notas n JOIN clientes c ON c.id = n.cliente_id
\* {where} ORDER BY n.created_at DESC.  The WHERE clause is there "if cliente_id":
\* not for None and not for 0.
repo_notas_list(db, cliente_id) ==
    LET where(n) == cliente_id \in {NULL, 0} \/ n.cliente_id = cliente_id
    IN  Returned(db,
          SortNotas({[id |-> n.id, cliente_id |-> n.cliente_id,
                      contenido |-> n.contenido, created_at |-> n.created_at,
                      nombre |-> c.nombre, apellido |-> c.apellido, email |-> c.email] :
                       <<n, c>> \in {x \in db.notas \X db.clientes :
                                       x[2].id = x[1].cliente_id /\ where(x[1])}}))

NotaIds == 1..(MaxNotas + 1)

----------------------------------------------------------------------------
(* Turnos. *)

\* A date argument is <<year, month, day>>, a time argument <<hour, minute>>: the
\* numbers strptime reads from "%Y-%m-%d" and "%H:%M".
IsLeap(y) == (y % 4 = 0 /\ y % 100 # 0) \/ y % 400 = 0

DaysInMonth(y, m) ==
    CASE m \in {1, 3, 5, 7, 8, 10, 12} -> 31
      [] m \in {4, 6, 9, 11} -> 30
      [] m = 2 -> IF IsLeap(y) THEN 29 ELSE 28
      [] OTHER -> 0

\* The character of the decimal digit d.
DigitChar(d) ==
    CASE d = 0 -> "0" [] d = 1 -> "1" [] d = 2 -> "2" [] d = 3 -> "3" [] d = 4 -> "4"
      [] d = 5 -> "5" [] d = 6 -> "6" [] d = 7 -> "7" [] d = 8 -> "8" [] d = 9 -> "9"

RECURSIVE Decimal(_)
\* The decimal digits of n, without leading zeros.
Decimal(n) ==
    IF n < 10 THEN <<DigitChar(n)>>
    ELSE Decimal(n \div 10) \o <<DigitChar(n % 10)>>

\* strftime %m, %d, %H, %M: two digits, zero-padded.
Pad2(n) == IF n < 10 THEN <<"0">> \o Decimal(n) ELSE Decimal(n)

\* strftime %Y as the C library of the platform writes it.  glibc writes the year
\* without padding ("99" for the year 99); a library that pads writes "0099".
STRFTIME_PADS_YEAR == FALSE

Pad4(n) ==
    LET d == Decimal(n)
    IN  [i \in 1..(4 - Len(d)) |-> "0"] \o d

FormatYear(y) == IF STRFTIME_PADS_YEAR THEN Pad4(y) ELSE Decimal(y)

\* dt.strftime("%Y-%m-%d %H:%M"): the text of a date-time, a sequence of characters.
strftime(y, m, d, h, mi) ==
    FormatYear(y) \o <<"-">> \o Pad2(m) \o <<"-">> \o Pad2(d) \o <<" ">>
        \o Pad2(h) \o <<":">> \o Pad2(mi)

\* _combine_fecha_hora(fecha, hora): strptime accepts a calendar date (a year of
\* four digits, 0001 to 9999) and a clock time, and strftime renders them; anything
\* else raises ValueError("Fecha u hora invalida. Formatos esperados: AAAA-MM-DD y
\* HH:MM").
combine_fecha_hora(fecha, hora) ==
    IF /\ fecha[1] >= 1 /\ fecha[1] <= 9999
       /\ fecha[2] >= 1 /\ fecha[2] <= 12
       /\ fecha[3] >= 1 /\ fecha[3] <= DaysInMonth(fecha[1], fecha[2])
       /\ hora[1] >= 0 /\ hora[1] <= 23
       /\ hora[2] >= 0 /\ hora[2] <= 59
    THEN [exc |-> "none",
          ret |-> strftime(fecha[1], fecha[2], fecha[3], hora[1], hora[2])]
    ELSE [exc |-> "ValueError", ret |-> << >>]

\* repo_turnos_add(cliente_id, fecha, hora, motivo): the date is combined first;
\* INSERT INTO turnos (cliente_id, inicio, motivo, created_at); returns lastrowid.
repo_turnos_add(db, cliente_id, fecha, hora, motivo, ts) ==
    LET inicio == combine_fecha_hora(fecha, hora)
        id == db.seq_turnos + 1
        row == [id |-> id, cliente_id |-> cliente_id, inicio |-> inicio.ret,
                motivo |-> Strip(motivo), created_at |-> ts]
    IN  IF inicio.exc # "none" THEN Raised(db, inicio.exc, NULL)
        ELSE IF ~FkClienteOk(db, cliente_id, get_conn)
        THEN Raised(db, "IntegrityError", NULL)
        ELSE Returned([db EXCEPT !.turnos = db.turnos \cup {row}, !.seq_turnos = id], id)

\* repo_turnos_update with the sparse semantics of repo_update_by_id: a cliente_id
\* of None leaves the stored reference as it is.
repo_turnos_update_disperso(db, turno_id, cliente_id, fecha, hora, motivo) ==
    LET inicio == combine_fecha_hora(fecha, hora)
        matched == {t \in db.turnos : t.id = turno_id}
        upd(t) == [t EXCEPT !.cliente_id = IF cliente_id = NULL THEN t.cliente_id
                                           ELSE cliente_id,
                            !.inicio = inicio.ret, !.motivo = Strip(motivo)]
    IN  IF inicio.exc # "none" THEN Raised(db, inicio.exc, FALSE)
        ELSE Returned([db EXCEPT !.turnos = (db.turnos \ matched)
                                             \cup {upd(t) : t \in matched}],
                      matched # {})

\* repo_turnos_update with the date combined after the UPDATE statement: the row is
\* written, and then ValueError is raised outside the transaction.
repo_turnos_update_valida_despues(db, turno_id, cliente_id, fecha, hora, motivo) ==
    LET inicio == combine_fecha_hora(fecha, hora)
        matched == {t \in db.turnos : t.id = turno_id}
        upd(t) == [t EXCEPT !.cliente_id = cliente_id, !.motivo = Strip(motivo),
                            !.inicio = IF inicio.exc = "none" THEN inicio.ret
                                       ELSE t.inicio]
        db2 == [db EXCEPT !.turnos = (db.turnos \ matched) \cup {upd(t) : t \in matched}]
    IN  IF inicio.exc # "none" THEN Raised(db2, inicio.exc, FALSE)
        ELSE Returned(db2, matched # {})

\* repo_turnos_update(turno_id, cliente_id=, fecha=, hora=, motivo=): the date is
\* combined first; UPDATE turnos SET cliente_id = ?, inicio = ?, motivo = ?
\* WHERE id = ?; rowcount > 0.
repo_turnos_update(db, turno_id, cliente_id, fecha, hora, motivo) ==
    LET inicio == combine_fecha_hora(fecha, hora)
        matched == {t \in db.turnos : t.id = turno_id}
        upd(t) == [t EXCEPT !.cliente_id = cliente_id, !.inicio = inicio.ret,
                            !.motivo = Strip(motivo)]
    IN  IF inicio.exc # "none" THEN Raised(db, inicio.exc, FALSE)
        ELSE IF matched # {} /\ ~FkClienteOk(db, cliente_id, get_conn)
        THEN Raised(db, "IntegrityError", FALSE)
        ELSE Returned([db EXCEPT !.turnos = (db.turnos \ matched)
                                             \cup {upd(t) : t \in matched}],
                      matched # {})

\* repo_turnos_delete without the WHERE clause: every appointment is deleted.
repo_turnos_delete_sin_where(db, turno_id) ==
    Returned([db EXCEPT !.turnos = {}], {t \in db.turnos : t.id = turno_id} # {})

\* repo_turnos_delete(turno_id): DELETE FROM turnos WHERE id = ?; rowcount > 0.
repo_turnos_delete(db, turno_id) ==
    LET matched == {t \in db.turnos : t.id = turno_id}
    IN  Returned([db EXCEPT !.turnos = db.turnos \ matched], matched # {})

\* repo_turnos_get(turno_id): SELECT t.*, c.nombre, c.apellido, c.email FROM turnos t
\* LEFT JOIN clientes c ON c.id = t.cliente_id WHERE t.id = ?; fetchone().  The
\* joined columns are the set of the matching customers' columns: {} is NULL.
repo_turnos_get(db, turno_id) ==
    Returned(db,
        {[id |-> t.id, inicio |-> t.inicio, motivo |-> t.motivo,
          cliente_id |-> t.cliente_id,
          cliente |-> {[nombre |-> c.nombre, apellido |-> c.apellido, email |-> c.email] :
                         c \in {x \in db.clientes : x.id = t.cliente_id}}] :
            t \in {x \in db.turnos : x.id = turno_id}})

\* The code of a character of a date-time text.
CharCode(ch) ==
    CASE ch = " " -> 32 [] ch = "-" -> 45 [] ch = ":" -> 58
      [] ch = "0" -> 48 [] ch = "1" -> 49 [] ch = "2" -> 50 [] ch = "3" -> 51
      [] ch = "4" -> 52 [] ch = "5" -> 53 [] ch = "6" -> 54 [] ch = "7" -> 55
      [] ch = "8" -> 56 [] ch = "9" -> 57

\* The comparison of two TEXT values of SQLite (BINARY collation): -1, 0 or 1.
BinaryCmp(a, b) ==
    SeqCmp([i \in 1..Len(a) |-> CharCode(a[i])], [i \in 1..Len(b) |-> CharCode(b[i])])

\* _dt.now().strftime("%Y-%m-%d %H:%M") when the clock reads ts: the clock starts
\* at 10:00 of 1 March 2024 and each of its steps ends in a later minute.
ClockMinute(ts) == strftime(2024, 3, 1, 10, ts)

\* The WHERE clause of repo_turnos_list: futuro is True, futuro is False, or neither.
WhereFuturo(futuro, t, ahora) ==
    CASE futuro = "True"  -> BinaryCmp(t.inicio, ahora) >= 0
      [] futuro = "False" -> BinaryCmp(t.inicio, ahora) < 0
      [] OTHER            -> TRUE

\* ORDER BY t.inicio DESC when futuro is False, ORDER BY t.inicio ASC otherwise: r1
\* sorts before r2.  Rows with the same inicio come out in rowid order when
\* ascending and in reverse rowid order when descending.
OrderTurnos(futuro, r1, r2) ==
    LET c == BinaryCmp(r1.inicio, r2.inicio)
    IN  IF futuro = "False"
        THEN c > 0 \/ (c = 0 /\ r1.id > r2.id)
        ELSE c < 0 \/ (c = 0 /\ r1.id < r2.id)

RECURSIVE SortTurnos(_, _)
SortTurnos(rows, futuro) ==
    IF rows = {} THEN << >>
    ELSE LET first == CHOOSE r \in rows :
                        \A o \in rows : o = r \/ OrderTurnos(futuro, r, o)
         IN  <<first>> \o SortTurnos(rows \ {first}, futuro)

\* repo_turnos_list(futuro): SELECT t.id, t.inicio, t.motivo, t.cliente_id, c.nombre,
\* c.apellido, c.email FROM turnos t LEFT JOIN clientes c ON c.id = t.cliente_id
\* {where} ORDER BY {order}; all rows fetched.  The reference time is the clock's
\* minute at the call.
repo_turnos_list(db, futuro, ts) ==
    Returned(db,
        SortTurnos(
            {[id |-> t.id, inicio |-> t.inicio, motivo |-> t.motivo,
              cliente_id |-> t.cliente_id,
              cliente |-> {[nombre |-> c.nombre, apellido |-> c.apellido,
                            email |-> c.email] :
                             c \in {x \in db.clientes : x.id = t.cliente_id}}] :
                t \in {x \in db.turnos : WhereFuturo(futuro, x, ClockMinute(ts))}},
            futuro))

TurnoIds == 1..(MaxTurnos + 1)
Fechas == {<<2024, 2, 29>>, <<2024, 2, 30>>, <<2024, 3, 1>>}
\* The customer reference of an appointment: None or an identifier.
ClienteRefs == {NULL} \cup ClienteIds

----------------------------------------------------------------------------
(* Ajustes. *)

\* The keys the settings form writes and get_smtp_config reads.
Claves == {"SMTP_HOST", "SMTP_PORT", "SMTP_USER", "SMTP_PASS", "SMTP_FROM"}

\* set_setting as a plain INSERT into a table without the primary key: a second row
\* for the key.
set_setting_sin_conflicto(db, key, value) ==
    Returned([db EXCEPT !.settings = @ \cup {[key |-> key, value |-> value]}], NULL)

\* set_setting(key, value): INSERT INTO settings(key, value) VALUES(?, ?) ON
\* CONFLICT(key) DO UPDATE SET value = excluded.value; key is the primary key.
\* Returns None.
set_setting(db, key, value) ==
    Returned([db EXCEPT !.settings = {r \in @ : r.key # key}
                                        \cup {[key |-> key, value |-> value]}], NULL)

\* {row["key"]: row["value"] for row in cur.fetchall()}: the dict of a settings table.
Ajustes(tbl) ==
    [k \in {r.key : r \in tbl} |-> (CHOOSE r \in tbl : r.key = k).value]

\* get_settings(): SELECT key, value FROM settings, as a dict.
get_settings(db) == Returned(db, Ajustes(db.settings))

\* os.getenv(key, default) in the environment env.
getenv(env, key, default) == IF key \in DOMAIN env THEN env[key] ELSE default

\* s.get(key, otherwise): the other operand only if the key is not stored.
GetOr_solo_ausente(s, key, otherwise) ==
    IF key \in DOMAIN s THEN s[key] ELSE otherwise

\* s.get(key) or otherwise: the stored value if the key is stored and its value is
\* not the empty string, else the other operand.
GetOr(s, key, otherwise) ==
    IF key \in DOMAIN s /\ s[key] # "" THEN s[key] ELSE otherwise

\* int(text) for the port texts of the model: the number, or ValueError.
EsEntero(text) == text \in {"587", "465"}
int(text) == CASE text = "587" -> 587 [] text = "465" -> 465 [] OTHER -> 0

\* get_smtp_config without the last default of the from-address.
get_smtp_config_sin_remitente(db, env) ==
    LET s == Ajustes(db.settings)
        port == GetOr(s, "SMTP_PORT", getenv(env, "SMTP_PORT", "587"))
    IN  IF ~EsEntero(port) THEN Raised(db, "ValueError", {})
        ELSE Returned(db,
               {[host |-> GetOr(s, "SMTP_HOST", getenv(env, "SMTP_HOST", "")),
                 port |-> int(port),
                 user |-> GetOr(s, "SMTP_USER", getenv(env, "SMTP_USER", "")),
                 password |-> GetOr(s, "SMTP_PASS", getenv(env, "SMTP_PASS", "")),
                 from |-> GetOr(s, "SMTP_FROM",
                            getenv(env, "SMTP_FROM", getenv(env, "SMTP_USER", "")))]})

\* get_smtp_config(): each field is the stored setting or, if that is missing or
\* empty, the variable of the environment or, if that is not set, a default; the
\* port is converted with int(), which raises ValueError.  The result is the set
\* of the dict returned: {} when the call raised.
get_smtp_config(db, env) ==
    LET s == Ajustes(db.settings)
        port == GetOr(s, "SMTP_PORT", getenv(env, "SMTP_PORT", "587"))
        from == GetOr(s, "SMTP_FROM",
                      getenv(env, "SMTP_FROM", getenv(env, "SMTP_USER", "")))
    IN  IF ~EsEntero(port) THEN Raised(db, "ValueError", {})
        ELSE Returned(db,
               {[host |-> GetOr(s, "SMTP_HOST", getenv(env, "SMTP_HOST", "")),
                 port |-> int(port),
                 user |-> GetOr(s, "SMTP_USER", getenv(env, "SMTP_USER", "")),
                 password |-> GetOr(s, "SMTP_PASS", getenv(env, "SMTP_PASS", "")),
                 from |-> IF from # "" THEN from ELSE "no-reply@example.com"]})

----------------------------------------------------------------------------
(* Mail. *)

\* What the network answers to a send: the message is accepted, or the connection
\* fails (smtplib raises an OSError).
RespuestasSMTP == {"ok", "OSError"}

\* smtplib.SMTP(host, port, timeout=20) and the dialogue on it: a connection to
\* the mail server, with STARTTLS on port 587, and how it ended.
ConexionSMTP(cfg, net) ==
    [host |-> cfg.host, port |-> cfg.port, starttls |-> (cfg.port = 587),
     resultado |-> net]

\* enviar_email without the test of the configuration: it goes on with whatever
\* was resolved.
enviar_email_sin_comprobar(db, env) ==
    LET r == get_smtp_config(db, env)
    IN  [exc |-> r.exc, cfg |-> r.ret]

\* enviar_email(destino, asunto, cuerpo), up to the connection: the configuration
\* is resolved (an exception of get_smtp_config propagates); without host, user or
\* password: RuntimeError, before smtplib is used.  cfg is what was resolved.
enviar_email(db, env) ==
    LET r == get_smtp_config(db, env)
        cfg == CHOOSE c \in r.ret : TRUE
    IN  IF r.exc # "none" THEN [exc |-> r.exc, cfg |-> r.ret]
        ELSE IF cfg.host = "" \/ cfg.user = "" \/ cfg.password = ""
        THEN [exc |-> "RuntimeError", cfg |-> r.ret]
        ELSE [exc |-> "none", cfg |-> r.ret]

----------------------------------------------------------------------------
(* Validation and normalisation of the email and the telephone. *)

\* An address is a sequence of characters.  "U+0130" is the one character LATIN
\* CAPITAL LETTER I WITH DOT ABOVE and "U+0307" the one character COMBINING DOT ABOVE.
Mayusculas == [A |-> "a", B |-> "b", C |-> "c", O |-> "o"]
Minusculas == {"a", "b", "c", "i", "o"}

\* str.lower() of one character: U+0130 is the character whose lower-case form is
\* two characters, "i" and U+0307.
LowerChar(ch) ==
    IF ch \in DOMAIN Mayusculas THEN <<Mayusculas[ch]>>
    ELSE IF ch = "U+0130" THEN <<"i", "U+0307">>
    ELSE <<ch>>

RECURSIVE lower(_)
lower(s) == IF s = << >> THEN << >> ELSE LowerChar(Head(s)) \o lower(Tail(s))

\* email_validator: the characters of a dot-atom, ASCII and internationalised.
ATEXT == Minusculas \cup DOMAIN Mayusculas
ATEXT_INTL == ATEXT \cup {"U+0130", "U+0307"}
LOCAL_PART_MAX_LENGTH == 64
EMAIL_MAX_LENGTH == 254

\* The position of the last "@" of s, 0 if there is none.
LastAt(s) ==
    LET at == {i \in 1..Len(s) : s[i] = "@"}
    IN  IF at = {} THEN 0 ELSE CHOOSE i \in at : \A j \in at : j <= i

\* A dot-atom over the characters chars: not empty, no dot at either end, no two
\* dots in a row.
DotAtom(s, chars) ==
    /\ s # << >>
    /\ \A i \in 1..Len(s) : s[i] \in chars \cup {"."}
    /\ s[1] # "." /\ s[Len(s)] # "."
    /\ \A i \in 1..(Len(s) - 1) : ~(s[i] = "." /\ s[i + 1] = ".")

\* The number of bytes of the UTF-8 encoding of s.
Utf8Len(s) == Len(s) + Cardinality({i \in 1..Len(s) : s[i] \in {"U+0130", "U+0307"}})

\* The domains for which the resolver finds a mail exchanger.
DominiosConMX == {<<"b", ".", "c", "o">>}

\* validate_email(email, check_deliverability=True) of email_validator: the local
\* part is a dot-atom of at most 64 characters that does not start with a combining
\* character and is kept as written; the domain is a dot-atom of ASCII letters with
\* at least two labels and is lower-cased; the address is at most 254 characters and
\* bytes long; the domain must accept mail.  The result is the normalised address.
validate_email(email) ==
    LET at == LastAt(email)
        local == SubSeq(email, 1, at - 1)
        domain == lower(SubSeq(email, at + 1, Len(email)))
        normalized == local \o <<"@">> \o domain
    IN  IF /\ at # 0
           /\ Len(local) <= LOCAL_PART_MAX_LENGTH
           /\ DotAtom(local, ATEXT_INTL)
           /\ local[1] # "U+0307"
           /\ DotAtom(domain, ATEXT)
           /\ \E i \in 1..Len(domain) : domain[i] = "."
           /\ Len(normalized) <= EMAIL_MAX_LENGTH
           /\ Utf8Len(normalized) <= EMAIL_MAX_LENGTH
           /\ domain \in DominiosConMX
        THEN [exc |-> "none", email |-> normalized]
        ELSE [exc |-> "EmailNotValidError", email |-> << >>]

\* validar_y_normalizar_email that returns the address as validate_email normalised it.
validar_y_normalizar_email_sin_lower(email) ==
    LET result == validate_email(email)
    IN  IF result.exc # "none" THEN [exc |-> "ValueError", ret |-> << >>]
        ELSE [exc |-> "none", ret |-> result.email]

\* validar_y_normalizar_email(email): result.email.lower(), or ValueError.
validar_y_normalizar_email(email) ==
    LET result == validate_email(email)
    IN  IF result.exc # "none" THEN [exc |-> "ValueError", ret |-> << >>]
        ELSE [exc |-> "none", ret |-> lower(result.email)]

\* region.upper()
upper(region) == IF region = "us" THEN "US" ELSE region

\* validar_y_normalizar_telefono(telefono, region): the number in E.164 if it parses
\* and is valid for the region, else ValueError.
validar_y_normalizar_telefono(telefono, region) ==
    IF region = "US" /\ telefono \in {"+1 415 555 2671", "(415) 555-2671"}
    THEN [exc |-> "none", ret |-> "+14155552671"]
    ELSE [exc |-> "ValueError", ret |-> ""]

----------------------------------------------------------------------------
(* The create and update flows of the command line and of the web forms.  exc is
   the exception the flow catches and reports. *)

\* cli_add: validate, normalise, repo_add.  activo takes the default of Cliente.
cli_add(db, f, ts) ==
    LET email_norm == validar_y_normalizar_email(f.email)
        tel_e164 == validar_y_normalizar_telefono(f.telefono, upper(f.region))
    IN  IF email_norm.exc # "none" \/ tel_e164.exc # "none"
        THEN Raised(db, "ValueError", NULL)
        ELSE repo_add(db, [nombre |-> Strip(f.nombre), apellido |-> Strip(f.apellido),
                           telefono_e164 |-> tel_e164.ret, email |-> email_norm.ret,
                           activo |-> 1, notas |-> Strip(f.notas)], ts)

\* new_cliente, POST: as cli_add, with activo from the form.
new_cliente(db, f, ts) ==
    LET email_norm == validar_y_normalizar_email(f.email)
        tel_e164 == validar_y_normalizar_telefono(f.telefono, upper(f.region))
    IN  IF email_norm.exc # "none" \/ tel_e164.exc # "none"
        THEN Raised(db, "ValueError", NULL)
        ELSE repo_add(db, [nombre |-> Strip(f.nombre), apellido |-> Strip(f.apellido),
                           telefono_e164 |-> tel_e164.ret, email |-> email_norm.ret,
                           activo |-> IF f.activo THEN 1 ELSE 0,
                           notas |-> Strip(f.notas)], ts)

\* cli_update(email, **o): the current email and the options that are given are
\* validated and normalised, then repo_update.
cli_update(db, email, o, ts) ==
    LET email_original == validar_y_normalizar_email(email)
        tel_e164 == IF Supplied(o, "telefono")
                    THEN validar_y_normalizar_telefono(o.telefono, upper(o.region))
                    ELSE [exc |-> "none", ret |-> ""]
        email_final == IF Supplied(o, "email_nuevo")
                       THEN validar_y_normalizar_email(o.email_nuevo)
                       ELSE [exc |-> "none", ret |-> << >>]
        given == (DOMAIN o \ {"region", "telefono"})
                   \cup (IF Supplied(o, "telefono") THEN {"telefono_e164"} ELSE {})
        p == [k \in given |->
                CASE k = "telefono_e164" -> tel_e164.ret
                  [] k = "email_nuevo" -> email_final.ret
                  [] k = "activo" -> o.activo
                  [] OTHER -> Strip(o[k])]
    IN  IF email_original.exc # "none" \/ tel_e164.exc # "none"
           \/ email_final.exc # "none"
        THEN Raised(db, "ValueError", FALSE)
        ELSE repo_update(db, email_original.ret, p, ts)

\* edit_cliente that writes the names of the form before it validates the email
\* and the telephone.
edit_cliente_valida_despues(db, row, cliente_id, f, ts) ==
    LET email == Strip(f.email)
        email_norm == IF email # << >> THEN validar_y_normalizar_email(email)
                      ELSE [exc |-> "none", ret |-> row.email]
        tel_e164 == IF f.telefono # ""
                    THEN validar_y_normalizar_telefono(f.telefono, upper(f.region))
                    ELSE [exc |-> "none", ret |-> row.telefono]
        nombres == repo_update_by_id(db, cliente_id,
                     [nombre |-> Strip(f.nombre), apellido |-> Strip(f.apellido)], ts)
    IN  IF email_norm.exc # "none" \/ tel_e164.exc # "none"
        THEN Raised(nombres.db, "ValueError", FALSE)
        ELSE repo_update_by_id(db, cliente_id,
               [nombre |-> Strip(f.nombre), apellido |-> Strip(f.apellido),
                telefono_e164 |-> tel_e164.ret, email_nuevo |-> email_norm.ret,
                activo |-> f.activo, notas |-> f.notas], ts)

\* edit_cliente(cliente_id), POST, once row = repo_get_by_id(cliente_id) has found
\* the customer: the email and the telephone of the form are validated if they are
\* not empty, else those of row, the row that was read, are kept; every field is
\* passed to repo_update_by_id, which runs on the database as it is by then.
edit_cliente(db, row, cliente_id, f, ts) ==
    LET email == Strip(f.email)
        email_norm == IF email # << >> THEN validar_y_normalizar_email(email)
                      ELSE [exc |-> "none", ret |-> row.email]
        tel_e164 == IF f.telefono # ""
                    THEN validar_y_normalizar_telefono(f.telefono, upper(f.region))
                    ELSE [exc |-> "none", ret |-> row.telefono]
    IN  IF email_norm.exc # "none" \/ tel_e164.exc # "none"
        THEN Raised(db, "ValueError", FALSE)
        ELSE repo_update_by_id(db, cliente_id,
               [nombre |-> Strip(f.nombre), apellido |-> Strip(f.apellido),
                telefono_e164 |-> tel_e164.ret, email_nuevo |-> email_norm.ret,
                activo |-> f.activo, notas |-> f.notas], ts)

----------------------------------------------------------------------------
(* The state machine: one action per function or flow. *)

\* The record of a call: the function, its arguments (each in a field of its own
\* type; absent arguments hold the values below; id is the identifier or the
\* reference the call addresses), the exception raised ("none" if
\* none) and the value returned: ret for a bool, lastrowid for an identifier, row
\* for fetchone() (the set of the rows fetched: {} is None), rows for fetchall(),
\* dict for get_settings(), cfg for get_smtp_config() (the set of the dict returned).
\* entrada is the email and telefono the telephone as the user typed them, texto
\* a text returned.  con is the
\* connection the call opened, as it is when the call has returned or raised:
\* "none" if the call opened no connection, else "open" or "closed".  The
\* connection of the init_db() that precedes the first call is not followed.
NoCall ==
    [op |-> "init_db", id |-> NULL, email |-> "", c |-> {}, p |-> << >>,
     entrada |-> << >>, telefono |-> "", texto |-> << >>, con |-> "none",
     activo |-> "", futuro |-> "", cliente_id |-> NULL, fecha |-> << >>,
     hora |-> << >>, motivo |-> << >>, key |-> "", value |-> "", dict |-> << >>,
     cfg |-> {},
     ts |-> NULL,
     exc |-> "none", ret |-> FALSE, lastrowid |-> NULL, row |-> {}, rows |-> << >>]

\* The transaction of a call commits (or rolls back to) the database db.
Commit(db) ==
    /\ clientes' = db.clientes
    /\ seq_clientes' = db.seq_clientes
    /\ notas' = db.notas
    /\ seq_notas' = db.seq_notas
    /\ turnos' = db.turnos
    /\ seq_turnos' = db.seq_turnos
    /\ settings' = db.settings
    /\ UNCHANGED <<environ, smtp, now, peticiones>>

\* init_db() on a new database file: the tables exist and are empty.  No variable
\* of the environment is set and no mail was sent.
Init ==
    /\ clientes = {}
    /\ seq_clientes = 0
    /\ notas = {}
    /\ seq_notas = 0
    /\ turnos = {}
    /\ seq_turnos = 0
    /\ settings = {}
    /\ environ = << >>
    /\ smtp = {}
    /\ now = 0
    /\ peticiones = SinPeticiones
    /\ last = NoCall

\* datetime.now() as a call whose statement runs in this state has read it.  A
\* call reads the clock first and runs its statement afterwards, on a connection
\* that may have to wait for the lock of the database; meanwhile the clock moves
\* and other calls run.  ts of a call is the clock it read, NULL if it read none.
RelojLeido == 0..now

\* A second passes.
Tick ==
    /\ now < MaxClock
    /\ now' = now + 1
    /\ last' = [NoCall EXCEPT !.op = "tick"]
    /\ UNCHANGED <<clientes, seq_clientes, notas, seq_notas, turnos, seq_turnos,
                   settings, environ, smtp, peticiones>>

do_repo_add(c) ==
    /\ seq_clientes < MaxClientes
    /\ \E ts \in RelojLeido :
       LET r == repo_add(DB, c, ts)
       IN  /\ Commit(r.db)
           /\ last' = [NoCall EXCEPT !.op = "repo_add", !.con = Conexion(TRUE), !.c = {c}, !.email = c.email,
                                     !.lastrowid = r.ret,
                                     !.exc = r.exc,
                                  !.ts = ts]

do_repo_update_by_id(cliente_id, p) ==
    \E ts \in RelojLeido :
    LET r == repo_update_by_id(DB, cliente_id, p, ts)
    IN  /\ Commit(r.db)
        /\ last' = [NoCall EXCEPT !.op = "repo_update_by_id", !.con = Conexion(DOMAIN p # {}), !.id = cliente_id,
                                  !.p = p, !.ret = r.ret,
                                  !.exc = r.exc,
                                  !.ts = IF DOMAIN p = {} THEN NULL ELSE ts]

do_repo_update(email_original, p) ==
    \E ts \in RelojLeido :
    LET r == repo_update(DB, email_original, p, ts)
    IN  /\ Commit(r.db)
        /\ last' = [NoCall EXCEPT !.op = "repo_update", !.con = Conexion(DOMAIN p # {}), !.email = email_original,
                                  !.p = p, !.ret = r.ret,
                                  !.exc = r.exc,
                                  !.ts = IF DOMAIN p = {} THEN NULL ELSE ts]

do_repo_delete_by_id(cliente_id) ==
    LET r == repo_delete_by_id(DB, cliente_id)
    IN  /\ Commit(r.db)
        /\ last' = [NoCall EXCEPT !.op = "repo_delete_by_id", !.con = Conexion(TRUE), !.id = cliente_id,
                                  !.ret = r.ret,
                                  !.exc = r.exc]

do_repo_delete(email) ==
    LET r == repo_delete(DB, email)
    IN  /\ Commit(r.db)
        /\ last' = [NoCall EXCEPT !.op = "repo_delete", !.con = Conexion(TRUE), !.email = email, !.ret = r.ret,
                                  !.exc = r.exc]

do_repo_get_by_id(cliente_id) ==
    LET r == repo_get_by_id(DB, cliente_id)
    IN  /\ Commit(r.db)
        /\ last' = [NoCall EXCEPT !.op = "repo_get_by_id", !.con = Conexion(TRUE), !.id = cliente_id,
                                  !.row = r.ret,
                                  !.exc = r.exc]

do_repo_get_by_email(email) ==
    LET r == repo_get_by_email(DB, email)
    IN  /\ Commit(r.db)
        /\ last' = [NoCall EXCEPT !.op = "repo_get_by_email", !.con = Conexion(TRUE), !.email = email,
                                  !.row = r.ret,
                                  !.exc = r.exc]

do_repo_list(activo) ==
    LET r == repo_list(DB, activo)
    IN  /\ Commit(r.db)
        /\ last' = [NoCall EXCEPT !.op = "repo_list", !.con = Conexion(TRUE), !.activo = activo, !.rows = r.ret,
                                  !.exc = r.exc]

do_repo_notas_add(cliente_id, contenido) ==
    /\ seq_notas < MaxNotas
    /\ \E ts \in RelojLeido :
       LET r == repo_notas_add(DB, cliente_id, contenido, ts)
       IN  /\ Commit(r.db)
           /\ last' = [NoCall EXCEPT !.op = "repo_notas_add", !.con = Conexion(TRUE), !.id = cliente_id,
                                     !.lastrowid = r.ret,
                                     !.exc = r.exc,
                                  !.ts = ts]

do_repo_notas_list(cliente_id) ==
    LET r == repo_notas_list(DB, cliente_id)
    IN  /\ Commit(r.db)
        /\ last' = [NoCall EXCEPT !.op = "repo_notas_list", !.con = Conexion(TRUE),
                                  !.id = cliente_id, !.rows = r.ret, !.exc = r.exc]

do_repo_notas_delete(nota_id) ==
    LET r == repo_notas_delete(DB, nota_id)
    IN  /\ Commit(r.db)
        /\ last' = [NoCall EXCEPT !.op = "repo_notas_delete", !.con = Conexion(TRUE), !.id = nota_id,
                                  !.ret = r.ret,
                                  !.exc = r.exc]

do_repo_turnos_add(cliente_id, fecha, hora, motivo) ==
    /\ seq_turnos < MaxTurnos
    /\ \E ts \in RelojLeido :
       LET r == repo_turnos_add(DB, cliente_id, fecha, hora, motivo, ts)
       IN  /\ Commit(r.db)
           /\ last' = [NoCall EXCEPT !.op = "repo_turnos_add", !.con = Conexion(r.exc # "ValueError"), !.id = cliente_id,
                                     !.cliente_id = cliente_id,
                                     !.fecha = fecha, !.hora = hora,
                                     !.motivo = motivo,
                                     !.lastrowid = r.ret,
                                     !.exc = r.exc,
                                  !.ts = IF r.exc = "ValueError" THEN NULL ELSE ts]

do_repo_turnos_update(turno_id, cliente_id, fecha, hora, motivo) ==
    LET r == repo_turnos_update(DB, turno_id, cliente_id, fecha, hora, motivo)
    IN  /\ Commit(r.db)
        /\ last' = [NoCall EXCEPT !.op = "repo_turnos_update", !.con = Conexion(r.exc # "ValueError"), !.id = turno_id,
                                  !.cliente_id = cliente_id,
                                  !.fecha = fecha, !.hora = hora,
                                  !.motivo = motivo, !.ret = r.ret,
                                  !.exc = r.exc]

do_repo_turnos_list(futuro) ==
    \E ts \in RelojLeido :
    LET r == repo_turnos_list(DB, futuro, ts)
    IN  /\ Commit(r.db)
        /\ last' = [NoCall EXCEPT !.op = "repo_turnos_list", !.con = Conexion(TRUE), !.futuro = futuro,
                                  !.rows = r.ret,
                                  !.exc = r.exc,
                                  !.ts = ts]

do_repo_turnos_delete(turno_id) ==
    LET r == repo_turnos_delete(DB, turno_id)
    IN  /\ Commit(r.db)
        /\ last' = [NoCall EXCEPT !.op = "repo_turnos_delete", !.con = Conexion(TRUE), !.id = turno_id,
                                  !.ret = r.ret,
                                  !.exc = r.exc]

do_repo_turnos_get(turno_id) ==
    LET r == repo_turnos_get(DB, turno_id)
    IN  /\ Commit(r.db)
        /\ last' = [NoCall EXCEPT !.op = "repo_turnos_get", !.con = Conexion(TRUE), !.id = turno_id,
                                  !.row = r.ret,
                                  !.exc = r.exc]

do_set_setting(key, value) ==
    LET r == set_setting(DB, key, value)
    IN  /\ Commit(r.db)
        /\ last' = [NoCall EXCEPT !.op = "set_setting", !.con = Conexion(TRUE), !.key = key, !.value = value,
                                  !.exc = r.exc]

do_get_settings ==
    LET r == get_settings(DB)
    IN  /\ Commit(r.db)
        /\ last' = [NoCall EXCEPT !.op = "get_settings", !.con = Conexion(TRUE), !.dict = r.ret,
                                  !.exc = r.exc]

do_get_smtp_config ==
    LET r == get_smtp_config(DB, environ)
    IN  /\ Commit(r.db)
        /\ last' = [NoCall EXCEPT !.op = "get_smtp_config", !.con = Conexion(TRUE), !.cfg = r.ret,
                                  !.exc = r.exc]

do_cli_add(f) ==
    /\ seq_clientes < MaxClientes
    /\ \E ts \in RelojLeido :
       LET r == cli_add(DB, f, ts)
       IN  /\ Commit(r.db)
           /\ last' = [NoCall EXCEPT !.op = "cli_add", !.con = Conexion(TRUE), !.entrada = f.email, !.telefono = f.telefono,
                                     !.lastrowid = r.ret, !.exc = r.exc,
                                  !.ts = IF r.exc = "ValueError" THEN NULL ELSE ts]

do_new_cliente(f) ==
    /\ seq_clientes < MaxClientes
    /\ \E ts \in RelojLeido :
       LET r == new_cliente(DB, f, ts)
       IN  /\ Commit(r.db)
           /\ last' = [NoCall EXCEPT !.op = "new_cliente", !.con = Conexion(TRUE), !.entrada = f.email, !.telefono = f.telefono,
                                     !.lastrowid = r.ret, !.exc = r.exc,
                                  !.ts = IF r.exc = "ValueError" THEN NULL ELSE ts]

do_cli_update(email, o) ==
    \E ts \in RelojLeido :
    LET r == cli_update(DB, email, o, ts)
    IN  /\ Commit(r.db)
        /\ last' = [NoCall EXCEPT !.op = "cli_update", !.con = Conexion(TRUE), !.entrada = email, !.p = o,
                                  !.ret = r.ret, !.exc = r.exc,
                                  !.ts = IF r.exc = "ValueError" \/ DOMAIN o \subseteq {"region"} THEN NULL ELSE ts]

\* edit_cliente(cliente_id), POST, first half: request k arrives with the form f
\* and reads the customer on a connection of its own.  No customer: the request
\* answers 'Cliente no encontrado.' and nothing is written; else it holds the row.
edit_cliente_leer(k, cliente_id, f) ==
    /\ peticiones[k].pc = "nueva"
    /\ LET r == repo_get_by_id(DB, cliente_id)
       IN  IF r.ret = {}
           THEN /\ last' = [NoCall EXCEPT !.op = "edit_cliente", !.con = Conexion(TRUE),
                                          !.id = cliente_id, !.entrada = f.email,
                                          !.telefono = f.telefono]
                /\ UNCHANGED peticiones
           ELSE /\ last' = [NoCall EXCEPT !.op = "repo_get_by_id", !.con = Conexion(TRUE),
                                          !.id = cliente_id, !.row = r.ret]
                /\ peticiones' = [peticiones EXCEPT ![k] =
                                     [pc |-> "leida", op |-> "edit_cliente",
                                      cliente_id |-> cliente_id, row |-> r.ret,
                                      f |-> {f}, cfg |-> {}]]
    /\ UNCHANGED <<clientes, seq_clientes, notas, seq_notas, turnos, seq_turnos,
                   settings, environ, smtp, now>>

\* edit_cliente(cliente_id), POST, second half: the validation and
\* repo_update_by_id on another connection, with the row the request read.  The
\* calls of other requests and of the command line may come between the two
\* halves.  The request answers and its thread is free again.
edit_cliente_escribir(k) ==
    /\ peticiones[k].pc = "leida"
    /\ peticiones[k].op = "edit_cliente"
    /\ \E ts \in RelojLeido :
       LET row == CHOOSE x \in peticiones[k].row : TRUE
           f == CHOOSE x \in peticiones[k].f : TRUE
           r == edit_cliente(DB, row, peticiones[k].cliente_id, f, ts)
       IN  /\ clientes' = r.db.clientes
           /\ peticiones' = [peticiones EXCEPT ![k] = SinPeticiones[k]]
           /\ last' = [NoCall EXCEPT !.op = "edit_cliente", !.con = Conexion(TRUE),
                                     !.id = peticiones[k].cliente_id,
                                     !.row = peticiones[k].row,
                                     !.entrada = f.email, !.telefono = f.telefono,
                                     !.ret = r.ret, !.exc = r.exc,
                                  !.ts = IF r.exc = "ValueError" THEN NULL ELSE ts]
    /\ UNCHANGED <<seq_clientes, notas, seq_notas, turnos, seq_turnos,
                   settings, environ, smtp, now>>

\* validar_y_normalizar_email applied to the text at hand: the text chosen at the
\* start, or the text the previous call returned.
do_validar_y_normalizar_email ==
    /\ last.op \in {"input", "validar_y_normalizar_email"}
    /\ last.exc = "none"
    /\ LET r == validar_y_normalizar_email(last.texto)
       IN  last' = [NoCall EXCEPT !.op = "validar_y_normalizar_email",
                                  !.entrada = last.texto, !.texto = r.ret,
                                  !.exc = r.exc]
    /\ UNCHANGED <<clientes, seq_clientes, notas, seq_notas, turnos, seq_turnos,
                   settings, environ, smtp, now, peticiones>>

\* enviar_email, first half: request k resolves the configuration, in a
\* transaction of its own, and tests it.  An exception ends the send; else the
\* request holds the configuration.
enviar_email_leer(k) ==
    /\ peticiones[k].pc = "nueva"
    /\ LET r == enviar_email(DB, environ)
       IN  IF r.exc # "none"
           THEN /\ last' = [NoCall EXCEPT !.op = "enviar_email", !.con = Conexion(TRUE),
                                          !.cfg = r.cfg, !.exc = r.exc]
                /\ UNCHANGED peticiones
           ELSE /\ last' = [NoCall EXCEPT !.op = "get_smtp_config",
                                          !.con = Conexion(TRUE), !.cfg = r.cfg]
                /\ peticiones' = [peticiones EXCEPT ![k] =
                                     [SinPeticiones[k] EXCEPT !.pc = "leida",
                                                              !.op = "enviar_email",
                                                              !.cfg = r.cfg]]
    /\ UNCHANGED <<clientes, seq_clientes, notas, seq_notas, turnos, seq_turnos,
                   settings, environ, smtp, now>>

\* enviar_email, second half: with smtplib.SMTP(cfg["host"], cfg["port"]) the
\* connection to the mail server is opened and the message sent over it, with the
\* configuration cfg the request resolved; the settings may have been changed
\* since.  The request answers and its thread is free again.
enviar_email_conectar(k, net) ==
    /\ peticiones[k].pc = "leida"
    /\ peticiones[k].op = "enviar_email"
    /\ LET cfg == CHOOSE c \in peticiones[k].cfg : TRUE
           r == [exc |-> IF net = "ok" THEN "none" ELSE net,
                 smtp |-> smtp \cup {ConexionSMTP(cfg, net)}]
       IN  /\ Cardinality(r.smtp) <= MaxEnvios
           /\ smtp' = r.smtp
           /\ peticiones' = [peticiones EXCEPT ![k] = SinPeticiones[k]]
           /\ last' = [NoCall EXCEPT !.op = "enviar_email", !.con = Conexion(TRUE),
                                     !.cfg = peticiones[k].cfg, !.exc = r.exc]
    /\ UNCHANGED <<clientes, seq_clientes, notas, seq_notas, turnos, seq_turnos,
                   settings, environ, now>>

\* The caller has dropped the result or handled the exception of the last call, and
\* the cycle collector runs: the connection object is freed, which closes it.
gc_collect ==
    /\ last.con = "open"
    /\ last' = [last EXCEPT !.con = "closed"]
    /\ UNCHANGED <<clientes, seq_clientes, notas, seq_notas, turnos, seq_turnos,
                   settings, environ, smtp, now, peticiones>>

\* toggle_cliente(cliente_id), first half: request k arrives and reads the
\* customer on a connection of its own.  No customer: the request ends with the
\* message 'Cliente no encontrado.'; else it holds the row it read.
toggle_cliente_leer(k, cliente_id) ==
    /\ peticiones[k].pc = "nueva"
    /\ LET r == repo_get_by_id(DB, cliente_id)
       IN  /\ peticiones' = [peticiones EXCEPT ![k] =
                                [pc |-> IF r.ret = {} THEN "no_encontrado" ELSE "leida",
                                 op |-> "toggle_cliente", cliente_id |-> cliente_id,
                                 row |-> r.ret, f |-> {}, cfg |-> {}]]
           /\ last' = [NoCall EXCEPT !.op = "toggle_cliente", !.con = Conexion(TRUE),
                                     !.id = cliente_id, !.row = r.ret]
    /\ UNCHANGED <<clientes, seq_clientes, notas, seq_notas, turnos, seq_turnos,
                   settings, environ, smtp, now>>

\* toggle_cliente(cliente_id), second half: nuevo = 0 if row["activo"] else 1,
\* computed from the row the request read, and
\* repo_update_by_id(cliente_id, activo=bool(nuevo)) on another connection.  The
\* server handles each request in a thread of its own, so the calls of other
\* requests may come between the two halves.
toggle_cliente_escribir(k) ==
    /\ peticiones[k].pc = "leida"
    /\ peticiones[k].op = "toggle_cliente"
    /\ \E ts \in RelojLeido :
       LET row == CHOOSE x \in peticiones[k].row : TRUE
           nuevo == IF row.activo # 0 THEN 0 ELSE 1
           p == [activo |-> nuevo # 0]
           r == repo_update_by_id(DB, peticiones[k].cliente_id, p, ts)
       IN  /\ clientes' = r.db.clientes
           /\ peticiones' = [peticiones EXCEPT ![k].pc = "hecha"]
           /\ last' = [NoCall EXCEPT !.op = "toggle_cliente", !.con = Conexion(TRUE),
                                     !.id = peticiones[k].cliente_id, !.p = p,
                                     !.ret = r.ret, !.exc = r.exc,
                                  !.ts = ts]
    /\ UNCHANGED <<seq_clientes, notas, seq_notas, turnos, seq_turnos,
                   settings, environ, smtp, now>>

\* The identifiers a caller of the customer operations passes: those assigned so
\* far and the next one, which no customer has.
IdsConocidos == 1..(seq_clientes + 1)

\* The customer operations; the clock stands still.
Next ==
    \/ \E c \in ClientesNuevos : do_repo_add(c)
    \/ \E id \in IdsConocidos, p \in Patches : do_repo_update_by_id(id, p)
    \/ \E e \in Emails, p \in Patches : do_repo_update(e, p)
    \/ \E id \in IdsConocidos : do_repo_delete_by_id(id)
    \/ \E e \in Emails : do_repo_delete(e)
    \/ \E f \in Filtros : do_repo_list(f)

Spec == Init /\ [][Next]_vars

\* Customers and the clock: creates and the updates that leave the email, each of
\* which has read the clock at or before the second its statement runs in.
NextReloj ==
    \/ Tick
    \/ \E c \in ClientesNuevos : do_repo_add(c)
    \/ \E id \in IdsConocidos, p \in {q \in Patches : ~Supplied(q, "email_nuevo")} :
          do_repo_update_by_id(id, p)
    \/ \E e \in Emails, p \in {q \in Patches : ~Supplied(q, "email_nuevo")} :
          do_repo_update(e, p)

SpecReloj == Init /\ [][NextReloj]_vars

\* Customers and the clock: creates and the updates that supply an email.
NextEmailNuevo ==
    \/ Tick
    \/ \E c \in ClientesNuevos : do_repo_add(c)
    \/ \E id \in IdsConocidos, p \in {q \in Patches : Supplied(q, "email_nuevo")} :
          do_repo_update_by_id(id, p)
    \/ \E e \in Emails, p \in {q \in Patches : Supplied(q, "email_nuevo")} :
          do_repo_update(e, p)

SpecEmailNuevo == Init /\ [][NextEmailNuevo]_vars

\* Customers created with the same defaults, one per email.
ClientesRel ==
    { [nombre |-> "ana", apellido |-> "Baez", telefono_e164 |-> "+14155552671",
       email |-> "a@example.com", activo |-> 1, notas |-> ""],
      [nombre |-> "Bea", apellido |-> "abad", telefono_e164 |-> "+14155552672",
       email |-> "b@example.com", activo |-> 1, notas |-> ""] }

\* Customers and the toggle requests of the web server; no other call writes.
NextToggle ==
    \/ \E c \in ClientesRel : do_repo_add(c)
    \/ \E k \in 1..MaxPeticiones, id \in IdsConocidos : toggle_cliente_leer(k, id)
    \/ \E k \in 1..MaxPeticiones : toggle_cliente_escribir(k)

SpecToggle == Init /\ [][NextToggle]_vars

\* Customers and their notes; the clock stands still.
NextNotas ==
    \/ \E c \in ClientesRel : do_repo_add(c)
    \/ \E id \in ClienteIds : do_repo_delete_by_id(id)
    \/ \E e \in Emails : do_repo_delete(e)
    \/ \E id \in ClienteIds, c \in Contenidos : do_repo_notas_add(id, c)
    \/ \E id \in NotaIds : do_repo_notas_delete(id)

SpecNotas == Init /\ [][NextNotas]_vars

\* Customers and their notes while the clock runs; the listing is asked for without
\* a customer, for customer 0 and for the customers.
NextListaNotas ==
    \/ Tick
    \/ \E c \in ClientesRel : do_repo_add(c)
    \/ \E id \in IdsConocidos : do_repo_notas_add(id, <<"o", "k">>)
    \/ \E id \in {NULL, 0} \cup IdsConocidos : do_repo_notas_list(id)

SpecListaNotas == Init /\ [][NextListaNotas]_vars

\* Customers whose last names begin with an accented letter, in upper and in lower
\* case, or with an ASCII letter, and their listing.
ClientesListado ==
    { [nombre |-> n, apellido |-> a, telefono_e164 |-> "+14155552671",
       email |-> e, activo |-> 1, notas |-> ""] :
        n \in {"ana", "Bea"}, a \in {"U+00C1vila", "U+00E1valos", "abad", "Baez"},
        e \in Emails }

NextListado ==
    \/ \E c \in ClientesListado : do_repo_add(c)
    \/ \E a \in Filtros : do_repo_list(a)

SpecListado == Init /\ [][NextListado]_vars

\* Customers and their appointments; the clock stands still.
NextTurnos ==
    \/ \E c \in ClientesRel : do_repo_add(c)
    \/ \E id \in ClienteIds : do_repo_delete_by_id(id)
    \/ \E e \in Emails : do_repo_delete(e)
    \/ \E ref \in ClienteRefs, f \in Fechas, m \in Motivos :
          do_repo_turnos_add(ref, f, <<10, 0>>, m)
    \/ \E id \in TurnoIds, ref \in ClienteRefs :
          do_repo_turnos_update(id, ref, <<2024, 3, 1>>, <<10, 0>>, <<"c", "x">>)
    \/ \E id \in TurnoIds : do_repo_turnos_delete(id)
    \/ \E id \in TurnoIds : do_repo_turnos_get(id)

SpecTurnos == Init /\ [][NextTurnos]_vars

\* Every function that addresses a record by id or email, on tables filled by the
\* add functions with one choice of the arguments that do not address a record.
FechasLookup == {<<2024, 2, 29>>, <<2024, 2, 30>>}

NextLookup ==
    \/ \E c \in ClientesRel : do_repo_add(c)
    \/ do_repo_notas_add(1, <<"o", "k">>)
    \/ do_repo_turnos_add(NULL, <<2024, 2, 29>>, <<10, 0>>, <<"c", "x">>)
    \/ \E id \in ClienteIds : do_repo_get_by_id(id)
    \/ \E e \in Emails : do_repo_get_by_email(e)
    \/ \E id \in ClienteIds : do_repo_update_by_id(id, [activo |-> TRUE])
    \/ \E e \in Emails : do_repo_update(e, [activo |-> TRUE])
    \/ \E id \in ClienteIds : do_repo_delete_by_id(id)
    \/ \E e \in Emails : do_repo_delete(e)
    \/ \E id \in NotaIds : do_repo_notas_delete(id)
    \/ \E id \in TurnoIds : do_repo_turnos_get(id)
    \/ \E id \in TurnoIds, f \in FechasLookup :
          do_repo_turnos_update(id, NULL, f, <<10, 0>>, <<"c", "x">>)
    \/ \E id \in TurnoIds : do_repo_turnos_delete(id)

SpecLookup == Init /\ [][NextLookup]_vars

\* The customer the appointment specifications create.
ClienteAgenda ==
    [nombre |-> "ana", apellido |-> "Baez", telefono_e164 |-> "+14155552671",
     email |-> "a@example.com", activo |-> 1, notas |-> ""]

RefsAgenda == {NULL, 1}
MotivoAlta == <<"c", "x">>
MotivoEdicion == <<" ", "z", " ">>

\* The appointment book: the appointment functions that write and list, and the
\* clock.  The date and time arguments are <<fecha, hora>>: one of a year before
\* 1000, one before the clock's start, the minute of the clock's start, and a date
\* that no calendar has.
CitasAgenda ==
    { <<<<99, 1, 1>>, <<10, 0>>>>, <<<<2024, 2, 29>>, <<10, 0>>>>,
      <<<<2024, 3, 1>>, <<10, 0>>>>, <<<<2024, 2, 30>>, <<10, 0>>>> }

NextAgenda ==
    \/ Tick
    \/ do_repo_add(ClienteAgenda)
    \/ \E ref \in RefsAgenda, fh \in CitasAgenda :
          do_repo_turnos_add(ref, fh[1], fh[2], MotivoAlta)
    \/ \E id \in 1..(seq_turnos + 1), fh \in CitasAgenda :
          do_repo_turnos_update(id, NULL, fh[1], fh[2], MotivoEdicion)
    \/ \E futuro \in Filtros : do_repo_turnos_list(futuro)

SpecAgenda == Init /\ [][NextAgenda]_vars

\* Writing appointments: add and update with every choice of the customer
\* reference, and with date and time arguments of which one has a date that no
\* calendar has and one a time that no clock shows; the clock stands still.
CitasEdicion ==
    { <<<<2024, 2, 29>>, <<10, 0>>>>, <<<<2024, 3, 1>>, <<10, 0>>>>,
      <<<<2024, 2, 30>>, <<10, 0>>>>, <<<<2024, 2, 29>>, <<24, 0>>>> }

NextEdicion ==
    \/ do_repo_add(ClienteAgenda)
    \/ \E ref \in RefsAgenda, fh \in CitasEdicion :
          do_repo_turnos_add(ref, fh[1], fh[2], MotivoAlta)
    \/ \E id \in 1..(seq_turnos + 1), ref \in RefsAgenda, fh \in CitasEdicion :
          do_repo_turnos_update(id, ref, fh[1], fh[2], MotivoEdicion)

SpecEdicion == Init /\ [][NextEdicion]_vars

\* The settings and the mail configuration.  The environment is one of: nothing
\* set, every variable set, only the user set, the user set and the from-address
\* set to the empty text (a port that is set is a number: the module converts it
\* when it is loaded).
Entornos ==
    { << >>,
      [SMTP_HOST |-> "env.example.com", SMTP_PORT |-> "465", SMTP_USER |-> "envuser",
       SMTP_PASS |-> "envpass", SMTP_FROM |-> "env@example.com"],
      [SMTP_USER |-> "envuser"],
      [SMTP_USER |-> "envuser", SMTP_FROM |-> ""] }

\* The values the settings form stores under a key: the text of the field,
\* stripped.  A port field left empty is stored as "587"; one that holds only
\* blanks is stored as the empty text, the default being taken before the strip.
ValoresForm(key) ==
    CASE key = "SMTP_HOST" -> {"", "db.example.com"}
      [] key = "SMTP_PORT" -> {"", "587", "465", "abc"}
      [] key = "SMTP_USER" -> {"", "dbuser"}
      [] key = "SMTP_PASS" -> {"", "dbpass"}
      [] key = "SMTP_FROM" -> {"", "db@example.com"}

InitAjustes ==
    /\ clientes = {}
    /\ seq_clientes = 0
    /\ notas = {}
    /\ seq_notas = 0
    /\ turnos = {}
    /\ seq_turnos = 0
    /\ settings = {}
    /\ environ \in Entornos
    /\ smtp = {}
    /\ now = 0
    /\ peticiones = SinPeticiones
    /\ last = NoCall

NextAjustes ==
    \/ \E key \in Claves : \E value \in ValoresForm(key) : do_set_setting(key, value)
    \/ do_get_settings
    \/ do_get_smtp_config

SpecAjustes == InitAjustes /\ [][NextAjustes]_vars

\* Sending mail.  The values stored for the fields a send needs, and a port that
\* is not a number.
ValoresCorreo(key) ==
    CASE key = "SMTP_HOST" -> {"", "db.example.com"}
      [] key = "SMTP_PORT" -> {"abc"}
      [] key = "SMTP_USER" -> {"", "dbuser"}
      [] key = "SMTP_PASS" -> {"", "dbpass"}

NextCorreo ==
    \/ \E key \in Claves \ {"SMTP_FROM"} : \E value \in ValoresCorreo(key) :
         do_set_setting(key, value)
    \/ \E k \in 1..MaxEnvios : enviar_email_leer(k)
    \/ \E k \in 1..MaxEnvios, net \in RespuestasSMTP : enviar_email_conectar(k, net)

SpecCorreo == InitAjustes /\ [][NextCorreo]_vars

\* The customer flows.  The emails typed: an address in lower case, the same with
\* an upper-case local part, with an upper-case domain, a second address, an
\* address with a blank before it, a text that is no address.
EntradasEmail ==
    { <<"a", "@", "b", ".", "c", "o">>, <<"A", "@", "b", ".", "c", "o">>,
      <<"a", "@", "B", ".", "C", "O">>, <<"c", "@", "b", ".", "c", "o">>,
      <<" ", "C", "@", "b", ".", "c", "o">>, <<"a", ".", "b", ".", "c", "o">> }

\* The form of a customer, with the email typed.
Formulario(email) ==
    [nombre |-> <<"a", "n", "a", " ">>, apellido |-> <<"B", "a", "e", "z">>,
     telefono |-> "(415) 555-2671", email |-> email, region |-> "us",
     activo |-> TRUE, notas |-> << >>]

\* The options of cli_update.
OpcionesUpdate ==
    {[email_nuevo |-> e] : e \in EntradasEmail}
      \cup {[notas |-> <<" ", "x">>], [telefono |-> "123", region |-> "US"]}

\* The emails cli_update is called with to name the customer: the two addresses,
\* the first one with an upper-case local part, a text that is no address.
EntradasUpdate ==
    { <<"a", "@", "b", ".", "c", "o">>, <<"A", "@", "b", ".", "c", "o">>,
      <<"c", "@", "b", ".", "c", "o">>, <<"a", ".", "b", ".", "c", "o">> }

\* The telephones typed: a number of the region, a text that is no number.
Telefonos == {"(415) 555-2671", "123"}

\* The edit forms sent, each with another first name: the email and the telephone
\* left empty; an email with an upper-case local part; a second address and a
\* telephone; a text that is no address; a telephone that is no number.
FormulariosEdicion ==
    { [Formulario(x[1]) EXCEPT !.telefono = x[2], !.nombre = <<"B", "e", "a">>] :
        x \in { << << >>, "" >>,
                << <<"A", "@", "b", ".", "c", "o">>, "" >>,
                << <<"c", "@", "b", ".", "c", "o">>, "(415) 555-2671" >>,
                << <<"a", ".", "b", ".", "c", "o">>, "" >>,
                << <<"a", "@", "b", ".", "c", "o">>, "123" >> } }

NextFlujos ==
    \/ \E e \in EntradasEmail, t \in Telefonos :
         do_cli_add([Formulario(e) EXCEPT !.telefono = t])
    \/ \E e \in EntradasEmail, t \in Telefonos :
         do_new_cliente([Formulario(e) EXCEPT !.telefono = t])
    \/ \E e \in EntradasUpdate, o \in OpcionesUpdate : do_cli_update(e, o)
    \/ \E k \in 1..MaxEdiciones, id \in IdsConocidos, f \in FormulariosEdicion :
         edit_cliente_leer(k, id, f)
    \/ \E k \in 1..MaxEdiciones : edit_cliente_escribir(k)

SpecFlujos == Init /\ [][NextFlujos]_vars

\* The customer operations and the collector.
NextConexiones ==
    \/ \E c \in ClientesNuevos : do_repo_add(c)
    \/ \E id \in IdsConocidos, p \in Patches : do_repo_update_by_id(id, p)
    \/ \E a \in Filtros : do_repo_list(a)
    \/ gc_collect

SpecConexiones == Init /\ [][NextConexiones]_vars

\* The normalisation of an email as a function of its own.  n times the character ch.
Rep(ch, n) == [i \in 1..n |-> ch]

\* Local parts of up to 65 characters: letters in lower case after U+0130s, a local
\* part in upper case, one that starts with a dot; domains: with a mail exchanger,
\* the same in upper case, without one, of one label.
LocalesNormalizar ==
    {Rep("U+0130", k) \o Rep("a", n) : k \in {0, 1, 32, 33}, n \in {0, 1, 31, 32, 64}}
      \cup {<<"A", ".", "B">>, <<".", "a">>}
DominiosNormalizar ==
    { <<"b", ".", "c", "o">>, <<"B", ".", "C", "O">>, <<"b", ".", "c", "c">>,
      <<"b", "c", "o">> }
EntradasNormalizar ==
    {l \o <<"@">> \o d : l \in LocalesNormalizar, d \in DominiosNormalizar}

InitNormalizar ==
    /\ clientes = {} /\ seq_clientes = 0
    /\ notas = {} /\ seq_notas = 0
    /\ turnos = {} /\ seq_turnos = 0
    /\ settings = {} /\ environ = << >> /\ smtp = {}
    /\ now = 0
    /\ peticiones = SinPeticiones
    /\ \E x \in EntradasNormalizar : last = [NoCall EXCEPT !.op = "input", !.texto = x]

NextNormalizar == do_validar_y_normalizar_email

SpecNormalizar == InitNormalizar /\ [][NextNormalizar]_vars

----------------------------------------------------------------------------
(* Properties. *)

IsUpdate(c) == c.op \in {"repo_update_by_id", "repo_update"}
IsDelete(c) == c.op \in {"repo_delete_by_id", "repo_delete"}

\* The row r is the one the update or delete call c addresses.
Addressed(c, r) ==
    \/ c.op \in {"repo_update_by_id", "repo_delete_by_id"} /\ r.id = c.id
    \/ c.op \in {"repo_update", "repo_delete"} /\ r.email = c.email

\* C1: in every state reached by creating, updating (by id or by email) and
\* deleting customers, no two rows of clientes hold the same email.
C1_EmailUnico ==
    \A r1 \in clientes : \A r2 \in clientes : r1.email = r2.email => r1 = r2

\* Two customers are stored and the last call, an update that supplied the email
\* of the other customer, was refused.
C1_Witness ==
    /\ Cardinality(clientes) = 2
    /\ IsUpdate(last)
    /\ Supplied(last.p, "email_nuevo")
    /\ last.exc = "IntegrityError"
    /\ \E r \in clientes : Addressed(last, r) /\ r.email # last.p.email_nuevo

\* C2: repo_add with the email of a stored customer raises IntegrityError (not the
\* ValueError of invalid input) and changes nothing: the table and the id counter
\* are as before, and exactly one row holds that email.
C2_AltaDuplicada ==
    [][ (last'.op = "repo_add" /\ \E r \in clientes : r.email = last'.email)
        => /\ last'.exc = "IntegrityError"
           /\ last'.exc # "ValueError"
           /\ clientes' = clientes
           /\ seq_clientes' = seq_clientes
           /\ Cardinality({r \in clientes' : r.email = last'.email}) = 1 ]_vars

\* A create was refused for a stored email, and the stored row still holds values
\* that differ from the ones the refused call carried.
C2_Witness ==
    /\ last.op = "repo_add"
    /\ last.exc = "IntegrityError"
    /\ \E r \in clientes : \E c \in last.c :
         r.email = c.email /\ r.nombre # c.nombre /\ r.notas # c.notas

\* C3: a delete-customer call that removes a customer leaves no note whose
\* cliente_id is the identifier of a removed customer.
C3_BorraNotas ==
    [][ (IsDelete(last') /\ last'.ret)
        => \A r \in clientes \ clientes' :
             \A n \in notas' : n.cliente_id # r.id ]_vars

\* C4: a delete-customer call that removes a customer keeps every appointment: the
\* number of rows is as before, and each appointment that referenced a removed
\* customer is stored with inicio and motivo as before and cliente_id NULL.
C4_TurnosSinCliente ==
    [][ (IsDelete(last') /\ last'.ret)
        => /\ Cardinality(turnos') = Cardinality(turnos)
           /\ \A r \in clientes \ clientes' :
                \A t \in turnos :
                  t.cliente_id = r.id => [t EXCEPT !.cliente_id = NULL] \in turnos' ]_vars

\* C5: repo_notas_add called with a cliente_id that no stored customer has raises
\* and stores no note.
C5_NotaSinCliente ==
    [][ (last'.op = "repo_notas_add" /\ ~\E r \in clientes : r.id = last'.id)
        => /\ last'.exc # "none"
           /\ notas' = notas
           /\ seq_notas' = seq_notas ]_vars

\* The value the column of keyword argument f holds in row r, as the argument is
\* written: activo as a boolean, email_nuevo from the column email.
Column(r, f) ==
    CASE f = "email_nuevo" -> r.email
      [] f = "activo"      -> (r.activo = 1)
      [] OTHER             -> r[f]

\* The update call c succeeded on a row.
Updated(c) == IsUpdate(c) /\ c.exc = "none" /\ c.ret

\* C6: an update call changes, on the addressed row, only the supplied fields and
\* updated_at: each supplied field holds the supplied value, each field that is
\* not supplied keeps its value, id and created_at included; every other row is
\* unchanged and no row appears or disappears.
C6_SoloCamposProvistos ==
    [][ IsUpdate(last')
        => /\ {r.id : r \in clientes'} = {r.id : r \in clientes}
           /\ \A r \in clientes :
                IF Addressed(last', r) /\ Updated(last')
                THEN \E r2 \in clientes' :
                       /\ r2.id = r.id
                       /\ r2.created_at = r.created_at
                       /\ \A f \in CamposPatch :
                            Column(r2, f) = IF Supplied(last'.p, f)
                                            THEN last'.p[f]
                                            ELSE Column(r, f)
                ELSE r \in clientes' ]_vars

\* An update that supplied only notas succeeded at a later second than the row's
\* creation, while another customer is stored.
C6_Witness ==
    /\ Updated(last)
    /\ last.p = [notas |-> "VIP"]
    /\ Cardinality(clientes) = 2
    /\ \E r \in clientes :
         Addressed(last, r) /\ r.notas = "VIP" /\ r.created_at < r.updated_at

\* C7 as stated: every update call that addresses a stored customer and raises
\* nothing sets that customer's updated_at to the time of the call (the clock the
\* call read), whatever fields it supplies, the call that supplies none included.
C7_Original ==
    [][ (IsUpdate(last') /\ last'.exc = "none")
        => \A r \in clientes :
             Addressed(last', r)
             => \E r2 \in clientes' : r2.id = r.id /\ r2.updated_at = last'.ts ]_vars

\* C7 amended: an update call that supplies at least one field and raises nothing
\* sets the addressed customer's updated_at to the time of the call, which is the
\* clock the call read before its statement ran; a call that
\* supplies no field returns False and changes nothing, updated_at included.
C7_RefrescaUpdatedAt ==
    [][ IsUpdate(last')
        => /\ (DOMAIN last'.p # {} /\ last'.exc = "none")
              => \A r \in clientes :
                   Addressed(last', r)
                   => /\ last'.ret
                      /\ \E r2 \in clientes' : r2.id = r.id /\ r2.updated_at = last'.ts
           /\ DOMAIN last'.p = {}
              => /\ last'.exc = "none"
                 /\ ~last'.ret
                 /\ clientes' = clientes ]_vars

\* An update that supplied a field moved updated_at of a customer created in an
\* earlier second to the current second.
C7_Witness ==
    /\ Updated(last)
    /\ \E r \in clientes : r.created_at < now /\ r.updated_at = now

\* The update call c supplies an email that a customer other than the addressed
\* one holds in table tbl.
Collides(c, tbl) ==
    /\ Supplied(c.p, "email_nuevo")
    /\ \E o \in tbl : ~Addressed(c, o) /\ o.email = c.p.email_nuevo

\* C8: an update call that addresses a stored customer raises IntegrityError
\* exactly when it supplies an email that another customer holds; the failed call
\* changes no row (no other supplied field, no updated_at).  Supplying the
\* customer's own email raises nothing and the call returns True.
C8_EmailEnUso ==
    [][ (IsUpdate(last') /\ \E r \in clientes : Addressed(last', r))
        => /\ (last'.exc = "IntegrityError") <=> Collides(last', clientes)
           /\ last'.exc = "IntegrityError" => clientes' = clientes
           /\ (/\ Supplied(last'.p, "email_nuevo")
               /\ \E r \in clientes :
                    Addressed(last', r) /\ r.email = last'.p.email_nuevo)
              => last'.exc = "none" /\ last'.ret ]_vars

\* An update that supplied another customer's email together with other fields was
\* refused.
C8_Witness ==
    /\ IsUpdate(last)
    /\ last.exc = "IntegrityError"
    /\ Supplied(last.p, "nombre")
    /\ \E r \in clientes :
         Addressed(last, r) /\ r.email # last.p.email_nuevo
                            /\ r.nombre # last.p.nombre

\* The six tables and counters of the database.
Tablas == <<clientes, seq_clientes, notas, seq_notas, turnos, seq_turnos>>

\* The call c addresses, by id or by email, a record that is not stored.
NoEncontrado(c) ==
    \/ /\ c.op \in {"repo_get_by_id", "repo_update_by_id", "repo_delete_by_id"}
       /\ ~\E r \in clientes : r.id = c.id
    \/ /\ c.op \in {"repo_get_by_email", "repo_update", "repo_delete"}
       /\ ~\E r \in clientes : r.email = c.email
    \/ /\ c.op = "repo_notas_delete"
       /\ ~\E n \in notas : n.id = c.id
    \/ /\ c.op \in {"repo_turnos_get", "repo_turnos_update", "repo_turnos_delete"}
       /\ ~\E t \in turnos : t.id = c.id

\* The call c raised nothing and returned absence: None from a get, False from an
\* update or a delete.
Ausente(c) == c.exc = "none" /\ ~c.ret /\ c.row = {}

\* C9 as stated: every call that addresses a record that is not stored raises
\* nothing, returns absence, and leaves the database as it was.
C9_Original ==
    [][ NoEncontrado(last') => Ausente(last') /\ Tablas' = Tablas ]_vars

\* C9 amended: a call that addresses a record that is not stored leaves the
\* database as it was; it raises nothing and returns absence, except that
\* repo_turnos_update with a date or time that is not valid raises ValueError, as
\* it does when the appointment is stored.
C9_NoEncontrado ==
    [][ NoEncontrado(last')
        => /\ Tablas' = Tablas
           /\ IF /\ last'.op = "repo_turnos_update"
                 /\ combine_fecha_hora(last'.fecha, last'.hora).exc # "none"
              THEN last'.exc = "ValueError"
              ELSE Ausente(last') ]_vars

\* repo_turnos_update with a valid date returned False for an identifier that no
\* appointment has, while customers, notes and appointments are stored.
C9_Witness ==
    /\ last.op = "repo_turnos_update"
    /\ last.exc = "none"
    /\ ~last.ret
    /\ ~\E t \in turnos : t.id = last.id
    /\ clientes # {}
    /\ notas # {}
    /\ turnos # {}

Rows(seq) == {seq[i] : i \in 1..Len(seq)}

\* C10: repo_list(True) returns exactly the rows of repo_list(None) whose activo is
\* set and repo_list(False) exactly those whose activo is not set; the two
\* listings share no row and together hold every row of the unfiltered listing.
C10_FiltroActivo ==
    LET todos == repo_list(DB, "None").ret
        activos == repo_list(DB, "True").ret
        inactivos == repo_list(DB, "False").ret
    IN  /\ Rows(activos) = {r \in Rows(todos) : r.activo # 0}
        /\ Rows(inactivos) = {r \in Rows(todos) : r.activo = 0}
        /\ Rows(activos) \cap Rows(inactivos) = {}
        /\ Rows(activos) \cup Rows(inactivos) = Rows(todos)
        /\ Len(activos) + Len(inactivos) = Len(todos)
        /\ Len(todos) = Cardinality(clientes)

\* The active-only listing was taken of a table that holds an active and an
\* inactive customer, and returned the active one alone.
C10_Witness ==
    /\ last.op = "repo_list"
    /\ last.activo = "True"
    /\ Len(last.rows) = 1
    /\ Cardinality(clientes) = 2
    /\ \E r \in clientes : r.activo = 0

\* A date-time is <<year, month, day, hour, minute>>; SeqCmp orders two of them in
\* time.  The date-times the appointment book can hold or compare:
Instantes ==
    {<<fh[1][1], fh[1][2], fh[1][3], fh[2][1], fh[2][2]>> : fh \in CitasAgenda}
        \cup {<<2024, 3, 1, 10, ts>> : ts \in 0..MaxClock}

\* The date-time that the stored text s stands for.
InstanteDe(s) ==
    CHOOSE t \in Instantes : strftime(t[1], t[2], t[3], t[4], t[5]) = s

\* The rows of the listing l are in ascending (dir = 1) or descending (dir = -1)
\* order of their start time.
EnOrden(l, dir) ==
    \A i \in 1..Len(l) : \A j \in 1..Len(l) :
        i < j => dir * SeqCmp(InstanteDe(l[i].inicio), InstanteDe(l[j].inicio)) <= 0

\* C11: with T the time of the call, repo_turnos_list(True) returns exactly the
\* appointments whose start is at or after T, ascending, repo_turnos_list(False)
\* exactly those whose start is before T, descending, every stored appointment is
\* in exactly one of the two, and repo_turnos_list(None) returns all, ascending.
C11_ListadoTurnos ==
    LET T == <<2024, 3, 1, 10, now>>
        todos == repo_turnos_list(DB, "None", now).ret
        futuros == repo_turnos_list(DB, "True", now).ret
        pasados == repo_turnos_list(DB, "False", now).ret
        Ids(l) == {r.id : r \in Rows(l)}
    IN  /\ Ids(futuros) = {t.id : t \in {x \in turnos :
                                           SeqCmp(InstanteDe(x.inicio), T) >= 0}}
        /\ Ids(pasados) = {t.id : t \in {x \in turnos :
                                           SeqCmp(InstanteDe(x.inicio), T) < 0}}
        /\ EnOrden(futuros, 1)
        /\ EnOrden(pasados, -1)
        /\ Ids(futuros) \cap Ids(pasados) = {}
        /\ Ids(futuros) \cup Ids(pasados) = {t.id : t \in turnos}
        /\ Len(futuros) + Len(pasados) = Cardinality(turnos)
        /\ Ids(todos) = {t.id : t \in turnos}
        /\ Len(todos) = Cardinality(turnos)
        /\ EnOrden(todos, 1)

\* The text s has the form YYYY-MM-DD HH:MM (four, two, two, two and two digits)
\* of a date the calendar has and a time the clock shows.
Canonico(s) ==
    \E t \in Instantes :
        /\ combine_fecha_hora(<<t[1], t[2], t[3]>>, <<t[4], t[5]>>).exc = "none"
        /\ s = Pad4(t[1]) \o <<"-">> \o Pad2(t[2]) \o <<"-">> \o Pad2(t[3]) \o <<" ">>
                 \o Pad2(t[4]) \o <<":">> \o Pad2(t[5])

\* C12: in every state reached by adding and updating appointments, inicio of every
\* stored appointment is a valid date and time in the form YYYY-MM-DD HH:MM.
C12_InicioCanonico ==
    \A t \in turnos : Len(t.inicio) = 16 /\ Canonico(t.inicio)

\* The date and time arguments name a day the calendar does not have or a time the
\* clock does not show.
FechaHoraInvalida(fecha, hora) ==
    \/ fecha[1] \notin 1..9999
    \/ fecha[2] \notin 1..12
    \/ fecha[3] \notin 1..DaysInMonth(fecha[1], fecha[2])
    \/ hora[1] \notin 0..23
    \/ hora[2] \notin 0..59

IsTurnoWrite(c) == c.op \in {"repo_turnos_add", "repo_turnos_update"}

\* C13: repo_turnos_add and repo_turnos_update called with a date that is not a
\* calendar date or a time that is not a clock time raise ValueError (whose one
\* message names the formats AAAA-MM-DD and HH:MM) and write nothing: the table of
\* appointments and its id counter are as before.
C13_FechaInvalida ==
    [][ (IsTurnoWrite(last') /\ FechaHoraInvalida(last'.fecha, last'.hora))
        => /\ last'.exc = "ValueError"
           /\ turnos' = turnos
           /\ seq_turnos' = seq_turnos ]_vars

\* An update of a stored appointment to 30 February, with another reason and
\* another customer reference, was refused.
C13_Witness ==
    /\ last.op = "repo_turnos_update"
    /\ last.exc = "ValueError"
    /\ last.fecha = <<2024, 2, 30>>
    /\ \E t \in turnos :
         t.id = last.id /\ t.cliente_id # last.cliente_id /\ t.motivo # Strip(last.motivo)

\* The call c is a repo_turnos_update that raised nothing and matched a row.
TurnoUpdated(c) == c.op = "repo_turnos_update" /\ c.exc = "none" /\ c.ret

\* C14 as stated: an update of an appointment that does not supply the customer
\* reference (cliente_id is None) leaves the stored reference as it was.
C14_Original ==
    [][ (TurnoUpdated(last') /\ last'.cliente_id = NULL)
        => \A t \in turnos :
             t.id = last'.id
             => \E t2 \in turnos' : t2.id = t.id /\ t2.cliente_id = t.cliente_id ]_vars

\* C14 amended: repo_turnos_update takes all of cliente_id, fecha, hora and motivo
\* and writes all three columns: on the addressed row cliente_id becomes the
\* argument (NULL when it is None, whatever was stored), inicio the combined date
\* and time, motivo the stripped argument; id and created_at keep their values,
\* every other row is unchanged and no row appears or disappears.
C14_ReemplazaTodo ==
    [][ TurnoUpdated(last')
        => /\ {t.id : t \in turnos'} = {t.id : t \in turnos}
           /\ \A t \in turnos :
                IF t.id = last'.id
                THEN [t EXCEPT !.cliente_id = last'.cliente_id,
                               !.inicio = combine_fecha_hora(last'.fecha, last'.hora).ret,
                               !.motivo = Strip(last'.motivo)] \in turnos'
                ELSE t \in turnos' ]_vars

\* An update with cliente_id None succeeded on one of two stored appointments: the
\* row holds no customer reference and the reason of the update, while the other
\* row refers to customer 1 and holds the reason of its creation.
C14_Witness ==
    /\ TurnoUpdated(last)
    /\ last.cliente_id = NULL
    /\ \E t \in turnos : \E o \in turnos :
         /\ t.id = last.id /\ t.cliente_id = NULL /\ t.motivo = <<"z">>
         /\ o.id # t.id /\ o.cliente_id = 1 /\ o.motivo = MotivoAlta

\* C15: set_setting(k, v) is an upsert.  After the call get_settings() maps k to v,
\* whether or not k was stored; every other key is stored or not as before, with
\* the value it had; the table holds one row per key; and a second set_setting(k, v)
\* leaves the table as the first left it.
C15_Upsert ==
    [][ last'.op = "set_setting"
        => LET antes == Ajustes(settings)
               despues == Ajustes(settings')
               k == last'.key
           IN  /\ k \in DOMAIN despues
               /\ despues[k] = last'.value
               /\ DOMAIN despues = DOMAIN antes \cup {k}
               /\ \A o \in DOMAIN antes : o # k => despues[o] = antes[o]
               /\ \A r1 \in settings' : \A r2 \in settings' : r1.key = r2.key => r1 = r2
               /\ Cardinality(settings') = Cardinality(DOMAIN despues)
               /\ set_setting([DB EXCEPT !.settings = settings'], k, last'.value).db.settings
                    = settings' ]_vars

\* set_setting stored the empty value under SMTP_HOST while the four other keys are
\* stored with values that are not empty.
C15_Witness ==
    /\ last.op = "set_setting"
    /\ last.key = "SMTP_HOST"
    /\ last.value = ""
    /\ [key |-> "SMTP_HOST", value |-> ""] \in settings
    /\ Cardinality(settings) = 5
    /\ \A r \in settings : r.key # "SMTP_HOST" => r.value # ""

\* The fields of the mail configuration that are texts, with the key of each.
CamposTexto ==
    {<<"host", "SMTP_HOST">>, <<"user", "SMTP_USER">>, <<"password", "SMTP_PASS">>,
     <<"from", "SMTP_FROM">>}

\* C16 as stated: the configuration get_smtp_config returns has, for every field
\* whose key is stored, the stored value (for the port, the number it denotes), whatever the environment.
C16_Original ==
    [][ last'.op = "get_smtp_config"
        => LET s == Ajustes(settings)
           IN  \A c \in last'.cfg :
                    /\ \A f \in CamposTexto : f[2] \in DOMAIN s => c[f[1]] = s[f[2]]
                    /\ "SMTP_PORT" \in DOMAIN s => c.port = int(s["SMTP_PORT"]) ]_vars

\* C16 amended: a stored value that is not empty is the resolved value, whatever
\* the environment (for the port: the number it denotes).  A field whose key is
\* not stored, or is stored with the empty value, resolves to the variable of the
\* environment if it is set, and else to "" (host, user, password), to the
\* environment's user and then "no-reply@example.com" (from), to 587 (port).  The
\* call raises ValueError exactly when the port text so chosen is not a number.
C16_PrioridadAjustes ==
    [][ last'.op = "get_smtp_config"
        => LET s == Ajustes(settings)
               Guardado(k) == k \in DOMAIN s /\ s[k] # ""
               Env(k, d) == IF k \in DOMAIN environ THEN environ[k] ELSE d
               puerto == IF Guardado("SMTP_PORT") THEN s["SMTP_PORT"]
                         ELSE Env("SMTP_PORT", "587")
               remitente == Env("SMTP_FROM", Env("SMTP_USER", ""))
           IN  /\ (last'.exc = "ValueError") <=> ~EsEntero(puerto)
               /\ last'.exc \in {"none", "ValueError"}
               /\ (last'.exc = "none") <=> (last'.cfg # {})
               /\ \A c \in last'.cfg :
                    /\ \A f \in CamposTexto : Guardado(f[2]) => c[f[1]] = s[f[2]]
                    /\ c.port = int(puerto)
                    /\ \A f \in CamposTexto \ {<<"from", "SMTP_FROM">>} :
                         ~Guardado(f[2]) => c[f[1]] = Env(f[2], "")
                    /\ ~Guardado("SMTP_FROM")
                         => c.from = IF remitente # "" THEN remitente
                                     ELSE "no-reply@example.com" ]_vars

\* get_smtp_config returned the host of the environment although the settings form
\* had stored a host (the empty text), and the stored user although the environment
\* sets another.
C16_Witness ==
    /\ last.op = "get_smtp_config"
    /\ [key |-> "SMTP_HOST", value |-> ""] \in settings
    /\ [key |-> "SMTP_USER", value |-> "dbuser"] \in settings
    /\ "SMTP_HOST" \in DOMAIN environ
    /\ \E c \in last.cfg : c.host = environ["SMTP_HOST"] /\ c.user = "dbuser"

\* The email typed does not validate; the telephone typed does not validate.
EmailInvalido(email) == validar_y_normalizar_email(email).exc # "none"
TelefonoInvalido(telefono, region) ==
    validar_y_normalizar_telefono(telefono, upper(region)).exc # "none"

\* The calls that create a customer from what the user typed.
IsAlta(c) == c.op \in {"cli_add", "new_cliente"}

\* C17: a create flow (cli_add, new_cliente) that succeeds stores the lower-cased
\* form of the email typed; a create with a valid telephone whose email equals a
\* stored one up to letter case fails with the uniqueness violation and leaves the
\* table as it was; and after every create or update flow every stored email is
\* in lower case.
C17_EmailMinusculas ==
    [][ /\ (IsAlta(last') /\ last'.exc = "none")
             => \E r \in clientes' \ clientes :
                   r.id = last'.lastrowid /\ r.email = lower(last'.entrada)
        /\ ( /\ IsAlta(last') /\ ~TelefonoInvalido(last'.telefono, "us")
             /\ \E r \in clientes : lower(r.email) = lower(last'.entrada) )
             => last'.exc = "IntegrityError" /\ clientes' = clientes
        /\ \A r \in clientes' : lower(r.email) = r.email ]_vars

\* A create with an email in upper case was refused because the same address is
\* stored in lower case.
C17_Witness ==
    /\ IsAlta(last)
    /\ last.exc = "IntegrityError"
    /\ last.entrada # lower(last.entrada)
    /\ \E r \in clientes : r.email = lower(last.entrada)

\* C18: email normalisation is idempotent: normalising a text that a successful
\* normalisation returned succeeds and returns that text.
C18_Idempotente ==
    [][ ( /\ last.op = "validar_y_normalizar_email" /\ last.exc = "none"
          /\ last'.op = "validar_y_normalizar_email" )
        => (last'.exc = "none" /\ last'.texto = last.texto) ]_vars

\* C19: when a persistence operation has returned or raised, no connection that it
\* opened is open.
C19_ConexionLiberada == last.con # "open"

\* The configuration lacks a host, a user or a password.
Incompleta(c) == c.host = "" \/ c.user = "" \/ c.password = ""

\* C20: a send whose resolved configuration lacks a host, a user or a password
\* fails with the configuration-incomplete error (RuntimeError) and opens no
\* connection to the mail server: every connection is opened by a send that
\* resolved a configuration with host, user and password, to that host.
C20_SinConfiguracion ==
    [][ /\ ( /\ last'.op = "enviar_email"
             /\ \E c \in last'.cfg : Incompleta(c) )
           => (last'.exc = "RuntimeError" /\ smtp' = smtp)
        /\ \A x \in smtp' \ smtp :
             /\ last'.op = "enviar_email"
             /\ \E c \in last'.cfg : ~Incompleta(c) /\ x.host = c.host ]_vars

\* A send was refused for a configuration that has a host and a user and no
\* password, after an earlier send had opened a connection.
C20_Witness ==
    /\ last.op = "enviar_email"
    /\ last.exc = "RuntimeError"
    /\ \E c \in last.cfg : c.host # "" /\ c.user # "" /\ c.password = ""
    /\ smtp # {}

\* C21: get_smtp_config resolves a field from the stored setting, then from the
\* environment, then from a default: when no stored value and no variable of the
\* environment provides the port it is 587; when none provides the from-address
\* (no stored value, neither SMTP_FROM nor SMTP_USER in the environment) it is
\* no-reply@example.com; and the from-address of a configuration is never empty.
C21_CapasYDefectos ==
    [][ last'.op = "get_smtp_config"
        => LET s == Ajustes(settings)
               Guardado(k) == k \in DOMAIN s /\ s[k] # ""
               EnEntorno(k) == k \in DOMAIN environ
           IN  /\ (~Guardado("SMTP_PORT") /\ ~EnEntorno("SMTP_PORT"))
                    => (last'.exc = "none" /\ \A c \in last'.cfg : c.port = 587)
               /\ last'.exc = "none" => last'.cfg # {}
               /\ \A c \in last'.cfg :
                    /\ c.from # ""
                    /\ ( /\ ~Guardado("SMTP_FROM") /\ ~EnEntorno("SMTP_FROM")
                         /\ ~EnEntorno("SMTP_USER") )
                         => c.from = "no-reply@example.com"
                    /\ Guardado("SMTP_FROM") => c.from = s["SMTP_FROM"]
                    /\ (~Guardado("SMTP_FROM") /\ EnEntorno("SMTP_FROM")
                          /\ environ["SMTP_FROM"] # "")
                         => c.from = environ["SMTP_FROM"]
                    /\ (~Guardado("SMTP_PORT") /\ EnEntorno("SMTP_PORT"))
                         => c.port = int(environ["SMTP_PORT"]) ]_vars

\* get_smtp_config returned port 587 and the default from-address: the form had
\* stored the empty from-address, no port was stored and the environment sets
\* neither.
C21_Witness ==
    /\ last.op = "get_smtp_config"
    /\ [key |-> "SMTP_FROM", value |-> ""] \in settings
    /\ "SMTP_PORT" \notin DOMAIN Ajustes(settings)
    /\ {"SMTP_PORT", "SMTP_FROM", "SMTP_USER"} \cap DOMAIN environ = {}
    /\ \E c \in last.cfg : c.port = 587 /\ c.from = "no-reply@example.com"

\* C22: repo_notas_list returns the notes newest first: of two notes of a listing
\* the one created later (the one with the larger id) comes first; asked for a
\* customer it returns exactly the notes of that customer, and asked for none the
\* notes of all the customers.
C22_NotasRecientes ==
    \A f \in {NULL} \cup {c.id : c \in clientes} :
        LET l == repo_notas_list(DB, f).ret
        IN  /\ \A i, j \in 1..Len(l) : i < j => l[i].id > l[j].id
            /\ {l[i].id : i \in 1..Len(l)}
                 = {n.id : n \in {x \in notas :
                                    /\ \E c \in clientes : c.id = x.cliente_id
                                    /\ f = NULL \/ x.cliente_id = f}}

\* str.lower() of a name, in code points: the ASCII capitals and the capital
\* A WITH ACUTE (bytes 195, 129 -> code point 225) become their small letters.
RECURSIVE LowerPoints(_)
LowerPoints(bytes) ==
    IF bytes = << >> THEN << >>
    ELSE IF Head(bytes) = 195
         THEN <<IF bytes[2] = 129 THEN 225 ELSE bytes[2] + 64>>
                \o LowerPoints(Tail(Tail(bytes)))
    ELSE <<NocaseFold(Head(bytes))>> \o LowerPoints(Tail(bytes))

\* C23: repo_list returns the rows sorted by last name and then first name without
\* regard to case: of two adjacent rows the (lower-cased last name, lower-cased
\* first name) of the earlier is at most that of the later.
C23_OrdenListado ==
    \A a \in Filtros :
        LET l == repo_list(DB, a).ret
            Key(r) == <<LowerPoints(Codes(r.apellido)), LowerPoints(Codes(r.nombre))>>
            Leq(k1, k2) ==
                LET ca == SeqCmp(k1[1], k2[1])
                IN  ca < 0 \/ (ca = 0 /\ SeqCmp(k1[2], k2[2]) <= 0)
        IN  \A i \in 1..(Len(l) - 1) : Leq(Key(l[i]), Key(l[i + 1]))

\* The validation of the request c fails: in a create flow the email or the
\* telephone; in cli_update the current email, or the new email or the telephone
\* if given; in edit_cliente, for a customer that the request found (row), the
\* email or the telephone if the form holds one.
ValidacionFalla(c) ==
    CASE c.op \in {"cli_add", "new_cliente"} ->
           EmailInvalido(c.entrada) \/ TelefonoInvalido(c.telefono, "us")
      [] c.op = "cli_update" ->
           \/ EmailInvalido(c.entrada)
           \/ Supplied(c.p, "email_nuevo") /\ EmailInvalido(c.p.email_nuevo)
           \/ Supplied(c.p, "telefono") /\ TelefonoInvalido(c.p.telefono, c.p.region)
      [] c.op = "edit_cliente" ->
           /\ c.row # {}
           /\ \/ Strip(c.entrada) # << >> /\ EmailInvalido(Strip(c.entrada))
              \/ c.telefono # "" /\ TelefonoInvalido(c.telefono, "us")
      [] OTHER -> FALSE

\* C24: in the create and update flows of the command line and of the web forms,
\* when the validation of the email or of the telephone fails the invalid-input
\* error (ValueError) is reported and no customer row is inserted or modified.
C24_ValidaAntes ==
    [][ ValidacionFalla(last')
        => /\ last'.exc = "ValueError"
           /\ clientes' = clientes
           /\ seq_clientes' = seq_clientes ]_vars

\* The edit form of a customer that exists was sent with a valid email and a
\* telephone that is no number, and was refused: the customer has the name it had.
C24_Witness ==
    /\ last.op = "edit_cliente"
    /\ last.exc = "ValueError"
    /\ last.telefono = "123"
    /\ ~EmailInvalido(Strip(last.entrada))
    /\ \E r \in clientes : r.id = last.id /\ r.nombre = <<"a", "n", "a">>


----------------------------------------------------------------------------
\* The toggle requests on customer id that have inverted the flag and returned.
Completadas(id) ==
    {k \in 1..MaxPeticiones : peticiones[k].pc = "hecha" /\ peticiones[k].cliente_id = id}

\* The toggle requests on customer id that have read the customer and not yet written.
EnCurso(id) ==
    {k \in 1..MaxPeticiones : peticiones[k].pc = "leida" /\ peticiones[k].cliente_id = id}

\* C25: each completed toggle request inverts the customer's active flag exactly
\* once, also when requests interleave: when N toggle requests on a customer have
\* completed, none is under way and nothing else has written, the flag is the
\* value the customer was created with (1, active) inverted N times.
C25_ToggleInvierte ==
    \A r \in clientes :
        EnCurso(r.id) = {}
        => r.activo = (IF Cardinality(Completadas(r.id)) % 2 = 0 THEN 1 ELSE 0)


----------------------------------------------------------------------------
\* C26: customer identifiers are never reused.  The counter of the table never
\* decreases, and a create that succeeds returns an identifier greater than the
\* counter, that is, greater than every identifier an earlier create returned,
\* those of customers deleted since included; the counter then holds the new
\* identifier.  So the new identifier is that of no customer, and no note or
\* appointment that points at an identifier assigned earlier points at it.
C26_IdsNoReutilizados ==
    [][ /\ seq_clientes' >= seq_clientes
        /\ (last'.op = "repo_add" /\ last'.exc = "none")
           => /\ last'.lastrowid > seq_clientes
              /\ seq_clientes' = last'.lastrowid
              /\ \A r \in clientes : r.id < last'.lastrowid
              /\ \A n \in notas :
                    n.cliente_id \in 1..seq_clientes => n.cliente_id # last'.lastrowid
              /\ \A t \in turnos :
                    t.cliente_id \in 1..seq_clientes => t.cliente_id # last'.lastrowid
      ]_vars

\* A create has succeeded after customer 1 was deleted, whose note is still stored.
C26_Witness ==
    /\ last.op = "repo_add"
    /\ last.exc = "none"
    /\ last.lastrowid = 2
    /\ \A r \in clientes : r.id # 1
    /\ \E n \in notas : n.cliente_id = 1

====
